---- MODULE Spec2Model ----
(***************************************************************************)
(* Model of OrchestraSynthEngine (src/src/Engine/OrchestraSynthEngine.h):  *)
(* five sections, each a juce::Synthesiser voice pool fed by a per-section *)
(* MIDI queue that splitMidiBySection fills from the block's input stream. *)
(*                                                                         *)
(* Numbers: times are in milliseconds, float levels are fixed-point with   *)
(* EnvOne standing for 1.0f, gains/pans/sustain levels are in thousandths. *)
(* A MIDI event is [kind, ch, note, pos]: kind "on" is a note-on with a    *)
(* non-zero velocity (MidiMessage::isNoteOn), "off" a note-off, "other"    *)
(* a pitch-wheel message (a channel-voice message the voices ignore).      *)
(***************************************************************************)
EXTENDS Integers, Sequences, FiniteSets, Bags, TLC

VARIABLES
    sectionParams,   \* std::array<SectionParams, numSections>
    sectionRuntime,  \* std::array<SectionRuntime, numSections>
    midi,            \* the caller's juce::MidiBuffer handed to processBlock
    lastIn,          \* history: the stream the last processBlock call received
    noteOnLog,       \* history: per section, the note-ons the last call handled
    sent,            \* history: events the host has submitted so far
    host,            \* the driver: the events it may send and how many
    buffer,          \* the caller's juce::AudioBuffer after the last processBlock
    stages,          \* history: the post-processing stages that acted in that call
    heldIn,          \* history: what the buffer held when that call was made
    resetFound,      \* history: the pools reset found, until the next block
    convolutionReverb, \* ConvolutionEngine: [prepared, impulse, lastFile, decoded]
    oversampler,     \* Oversampler: [prepared, enabled, oversampling, lastOversampleFactor]
    presets,         \* PresetManager::presets: name -> stored tree
    tree,            \* the tree the caller last had serialiseToValueTree fill
    destData,        \* the juce::MemoryBlock the host last had getStateInformation fill
    strip,           \* a SectionStripComponent inside sliderValueChanged: its local p
    mixer,           \* MixerComponent's typing keyboard, the keys held, what it posted
    twin,            \* two engines of their own, a and b, given the same calls
    saved            \* history: the parameter blocks each stored tree was made
                     \* from, and the load that last wrote the parameter blocks

vars == <<sectionParams, sectionRuntime, midi, lastIn, noteOnLog, sent, host,
          buffer, stages, heldIn, resetFound, convolutionReverb, oversampler,
          presets, tree, destData, strip, mixer, twin, saved>>

audioVars == <<buffer, stages, heldIn>>
NoReset == <<>>
dspVars == <<convolutionReverb, oversampler>>
storeVars == <<presets, tree, destData, strip, mixer, twin, saved>>
storeVarsButMixer == <<presets, tree, destData, strip, twin, saved>>

\* ------------------------------------------------------------------------
\* Program constants
\* ------------------------------------------------------------------------
numSections == 5
numArticulations == 3
articulationKeyswitchBaseNote == 24

Strings == 0
Brass == 1
Sections == 0 .. (numSections - 1)

\* Model bounds: the pools are scaled down from 48 / 32 voices.
StringsVoices == 2
OtherVoices == 1
\* Events the host submits in one run (caps the synths' note-on counters).
MaxSent == 3
\* Events one block may carry.
MaxEvents == 2
\* Events submitted in a run of the routing specification.
MaxRouteSent == 2
\* The Strings pool and the events submitted in the stealing specification.
StealVoices == 3
MaxStealSent == 4
\* Events submitted in a run of the live specification.
MaxLiveSent == 2
\* Events submitted in a run with stored articulation indices out of range.
MaxRangeSent == 2
\* Events submitted in a run that places keyswitches inside a block.
MaxOrderSent == 3
\* Events the host submits to the section whose releases are followed.
MaxReleaseSent == 3
\* Events the host submits while capacities are being changed.
MaxPoolSent == 1

\* The buffer lengths the host renders with, and the sample positions it
\* stamps events with (all inside the block).
BlockSizes == {4096}
Positions == {0, 64}

\* juce::ADSR is never given a sample rate by SectionVoice, so it runs at
\* its default rate (in samples per 10 ms, to stay integral).
AdsrSamplesPer10Ms == 441
EnvOne == 1000 * 1000
\* juce::Synthesiser::minimumSubBlockSize, never changed by the engine.
minimumSubBlockSize == 32

CeilDiv(a, b) == (a + b - 1) \div b
Max(a, b) == IF a >= b THEN a ELSE b

\* ------------------------------------------------------------------------
\* Construction
\* ------------------------------------------------------------------------
DefaultSectionParams ==
    [gain |-> 800, pan |-> 0, cutoff |-> 12000, resonance |-> 700,
     attackMs |-> 5, releaseMs |-> 200, reverbSend |-> 300,
     oversampleFactor |-> 2, maxVoices |-> OtherVoices, articulationIndex |-> 0]

\* 0 = sustain, 1 = staccato, 2 = legato-ish.  Every section's
\* SectionRuntime::articulations is this table, written once by the
\* constructor and never again, so it is kept out of the state.
initialiseArticulations ==
    [idx \in 0 .. (numArticulations - 1) |->
        CASE idx = 0 -> [attackMs |-> 10, decayMs |-> 60, sustain |-> 900,
                         releaseMs |-> 250, filterCutoff |-> 12000, filterResonance |-> 700]
          [] idx = 1 -> [attackMs |-> 2, decayMs |-> 15, sustain |-> 600,
                         releaseMs |-> 80, filterCutoff |-> 8000, filterResonance |-> 900]
          [] OTHER   -> [attackMs |-> 30, decayMs |-> 80, sustain |-> 950,
                         releaseMs |-> 400, filterCutoff |-> 10000, filterResonance |-> 600]]

ConstructedParams ==
    [sec \in Sections |->
        [DefaultSectionParams EXCEPT
            !.maxVoices = IF sec = Strings THEN StringsVoices ELSE OtherVoices]]

ConstructedRuntime ==
    [sec \in Sections |->
        [voices |-> <<>>, numSounds |-> 0, lastNoteOnCounter |-> 0,
         midiBuffer |-> <<>>, currentArticulationIndex |-> 0]]

\* ------------------------------------------------------------------------
\* juce::ADSR as SectionVoice uses it
\* ------------------------------------------------------------------------
AdsrIdle == [state |-> "idle", envelopeVal |-> 0,
             attack |-> 0, decay |-> 0, sustain |-> 0, release |-> 0,
             releaseRate |-> 0]

\* getRate: distance / (timeInSeconds * sampleRate), -1 when the time is 0
AdsrRate(distance, ms) ==
    IF ms > 0 THEN CeilDiv(distance * 10, ms * AdsrSamplesPer10Ms) ELSE -1

AttackRate(a) == AdsrRate(EnvOne, a.attack)
SustainVal(a) == a.sustain * (EnvOne \div 1000)
DecayRate(a) == AdsrRate(EnvOne - SustainVal(a), a.decay)

AdsrReset(a) == [a EXCEPT !.state = "idle", !.envelopeVal = 0]

AdsrNoteOn(a) ==
    IF AttackRate(a) > 0 THEN [a EXCEPT !.state = "attack"]
    ELSE IF DecayRate(a) > 0 THEN [a EXCEPT !.state = "decay", !.envelopeVal = EnvOne]
    ELSE [a EXCEPT !.state = "sustain", !.envelopeVal = SustainVal(a)]

AdsrNoteOff(a) ==
    IF a.state = "idle" THEN a
    ELSE IF a.release > 0
         THEN [a EXCEPT !.state = "release",
                        !.releaseRate = AdsrRate(a.envelopeVal, a.release)]
         ELSE AdsrReset(a)

\* applyEnvelopeToBuffer: n calls of getNextSample, one stage at a time
RECURSIVE AdsrAdvance(_, _)
AdsrAdvance(a, n) ==
    IF n <= 0 \/ a.state = "idle" THEN a
    ELSE IF a.state = "attack" THEN
        LET k == Max(1, CeilDiv(EnvOne - a.envelopeVal, AttackRate(a)))
        IN IF n < k
           THEN [a EXCEPT !.envelopeVal = a.envelopeVal + n * AttackRate(a)]
           ELSE AdsrAdvance([a EXCEPT !.envelopeVal = EnvOne,
                                      !.state = IF DecayRate(a) > 0 THEN "decay"
                                                ELSE "sustain"], n - k)
    ELSE IF a.state = "decay" THEN
        LET k == Max(1, CeilDiv(a.envelopeVal - SustainVal(a), DecayRate(a)))
        IN IF n < k
           THEN [a EXCEPT !.envelopeVal = a.envelopeVal - n * DecayRate(a)]
           ELSE AdsrAdvance([a EXCEPT !.envelopeVal = SustainVal(a),
                                      !.state = "sustain"], n - k)
    ELSE IF a.state = "sustain" THEN [a EXCEPT !.envelopeVal = SustainVal(a)]
    ELSE \* release
        LET k == IF a.releaseRate <= 0 THEN 1
                 ELSE Max(1, CeilDiv(a.envelopeVal, a.releaseRate))
        IN IF n < k
           THEN [a EXCEPT !.envelopeVal = a.envelopeVal - n * a.releaseRate]
           ELSE AdsrReset(a)

AdsrIsActive(a) == a.state # "idle"

\* ------------------------------------------------------------------------
\* SectionVoice (a juce::SynthesiserVoice)
\* ------------------------------------------------------------------------
NewVoice ==
    [currentlyPlayingNote |-> -1, hasSound |-> FALSE, keyDown |-> FALSE,
     noteOnTime |-> 0, currentMidiNote |-> 60, level |-> 0,
     panLeft |-> 1000, panRight |-> 1000,
     filterCutoff |-> 0, filterResonance |-> 0, adsr |-> AdsrIdle,
     tempBuffer |-> 0]

\* juce::AudioBuffer::setSize (1, n, false, false, true) seen as the number
\* of samples allocated: a larger block is allocated only when the block
\* held is too small
tempBufferSetSize(allocated, numSamples) ==
    IF allocated >= numSamples THEN allocated ELSE numSamples

isVoiceActive(v) == v.currentlyPlayingNote >= 0
isPlayingButReleased(v) == isVoiceActive(v) /\ ~v.keyDown
clearCurrentNote(v) == [v EXCEPT !.currentlyPlayingNote = -1, !.hasSound = FALSE]

\* variant: a voice always starts with the first articulation
getCurrentArticulation_First(rt) == initialiseArticulations[0]

getCurrentArticulation(rt) ==
    LET idx == IF rt.currentArticulationIndex < 0 THEN 0
               ELSE IF rt.currentArticulationIndex > numArticulations - 1
                    THEN numArticulations - 1
                    ELSE rt.currentArticulationIndex
    IN initialiseArticulations[idx]

\* cos / sin of (p + 1) * pi / 4, in thousandths, for the pans the model uses
updatePanGains(pan) ==
    LET p == IF pan < -1000 THEN -1000 ELSE IF pan > 1000 THEN 1000 ELSE pan
    IN CASE p = -1000 -> [left |-> 1000, right |-> 0]
         [] p = 1000  -> [left |-> 0, right |-> 1000]
         [] OTHER     -> [left |-> 707 - (p * 293) \div 1000,
                          right |-> 707 + (p * 293) \div 1000]

\* variant: the envelope is set from the section's stored articulation index
startNote_StoredIndex(v, midiNoteNumber, velocity, p, rt) ==
    LET art == initialiseArticulations[p.articulationIndex]
        vel == IF velocity < 0 THEN 0 ELSE IF velocity > 1000 THEN 1000 ELSE velocity
        pg  == updatePanGains(p.pan)
    IN [v EXCEPT
          !.currentMidiNote = midiNoteNumber,
          !.adsr = AdsrNoteOn([v.adsr EXCEPT !.attack = art.attackMs,
                                             !.decay = art.decayMs,
                                             !.sustain = art.sustain,
                                             !.release = art.releaseMs]),
          !.filterCutoff = art.filterCutoff,
          !.filterResonance = art.filterResonance,
          !.level = (p.gain * vel) \div 1000,
          !.panLeft = pg.left,
          !.panRight = pg.right]

\* velocity is the float velocity in thousandths
startNote(v, midiNoteNumber, velocity, p, rt) ==
    LET art == getCurrentArticulation(rt)
        vel == IF velocity < 0 THEN 0 ELSE IF velocity > 1000 THEN 1000 ELSE velocity
        pg  == updatePanGains(p.pan)
    IN [v EXCEPT
          !.currentMidiNote = midiNoteNumber,
          !.adsr = AdsrNoteOn([v.adsr EXCEPT !.attack = art.attackMs,
                                             !.decay = art.decayMs,
                                             !.sustain = art.sustain,
                                             !.release = art.releaseMs]),
          !.filterCutoff = art.filterCutoff,
          !.filterResonance = art.filterResonance,
          !.level = (p.gain * vel) \div 1000,
          !.panLeft = pg.left,
          !.panRight = pg.right]

stopNote(v, allowTailOff) ==
    IF allowTailOff
    THEN [v EXCEPT !.adsr = AdsrNoteOff(v.adsr)]
    ELSE [clearCurrentNote(v) EXCEPT !.adsr = AdsrReset(v.adsr)]

\* variant: the note is not cleared when the envelope has ended
renderNextBlock_KeepsNote(v, numSamples) ==
    IF ~isVoiceActive(v) THEN v
    ELSE [v EXCEPT !.adsr = AdsrAdvance(v.adsr, numSamples),
                   !.tempBuffer = tempBufferSetSize(@, numSamples)]

\* SectionVoice::renderNextBlock, the part that changes the voice
renderNextBlock(v, numSamples) ==
    IF ~isVoiceActive(v) THEN v
    ELSE LET a == AdsrAdvance(v.adsr, numSamples)
             t == tempBufferSetSize(v.tempBuffer, numSamples)
         IN IF ~AdsrIsActive(a)
            THEN clearCurrentNote([v EXCEPT !.adsr = a, !.tempBuffer = t])
            ELSE [v EXCEPT !.adsr = a, !.tempBuffer = t]

\* What a voice adds to the output in renderNextBlock: nothing when it is
\* inactive or its envelope ends in these samples (it returns before the
\* mix loop), else its oscillator scaled by level and the pan gains.  The
\* buffer is modelled by the peak scale of what was mixed into each channel
\* (thousandths), 0 standing for all-zero samples.
Silence == [left |-> 0, right |-> 0]

voiceOutput(v, numSamples) ==
    IF isVoiceActive(v) /\ AdsrIsActive(AdsrAdvance(v.adsr, numSamples))
    THEN [left |-> (v.level * v.panLeft) \div 1000,
          right |-> (v.level * v.panRight) \div 1000]
    ELSE Silence

RECURSIVE mixVoices(_, _, _)
mixVoices(voices, numSamples, i) ==
    IF i > Len(voices) THEN Silence
    ELSE LET o == voiceOutput(voices[i], numSamples)
             r == mixVoices(voices, numSamples, i + 1)
         IN [left |-> o.left + r.left, right |-> o.right + r.right]

\* ------------------------------------------------------------------------
\* juce::Synthesiser as each section drives it.  A synth here is the record
\* [voices, numSounds, lastNoteOnCounter, log, out]; every event a section's
\* synth sees carries that section's channel, and the one sound of a synth
\* is its own SectionSound, so isPlayingChannel and canPlaySound hold for
\* all of its voices.
\* ------------------------------------------------------------------------
VoiceIdx(voices) == 1 .. Len(voices)

ActiveVoices(voices) == {i \in VoiceIdx(voices) : isVoiceActive(voices[i])}

getNumActiveVoices(rt) == Cardinality(ActiveVoices(rt.voices))

\* the voice of S that was started first (wasStartedBefore); S is not empty
Oldest(voices, S) ==
    CHOOSE i \in S :
        \A j \in S : \/ voices[i].noteOnTime < voices[j].noteOnTime
                     \/ (voices[i].noteOnTime = voices[j].noteOnTime /\ i <= j)

\* the first voice in pool order among the held ones with the lowest note
LowVoice(voices) ==
    LET H == {i \in VoiceIdx(voices) : ~isPlayingButReleased(voices[i])}
    IN IF H = {} THEN 0
       ELSE CHOOSE i \in H :
              \A j \in H :
                 \/ voices[i].currentlyPlayingNote < voices[j].currentlyPlayingNote
                 \/ (voices[i].currentlyPlayingNote = voices[j].currentlyPlayingNote
                     /\ i <= j)

TopVoice(voices) ==
    LET H == {i \in VoiceIdx(voices) : ~isPlayingButReleased(voices[i])}
        t == IF H = {} THEN 0
             ELSE CHOOSE i \in H :
                    \A j \in H :
                       \/ voices[i].currentlyPlayingNote > voices[j].currentlyPlayingNote
                       \/ (voices[i].currentlyPlayingNote = voices[j].currentlyPlayingNote
                           /\ i <= j)
    IN IF t = LowVoice(voices) THEN 0 ELSE t

\* variants: the quietest voice is taken; a full pool drops the note
findVoiceToSteal_Quietest(voices, midiNoteNumber) ==
    CHOOSE i \in VoiceIdx(voices) :
        \A j \in VoiceIdx(voices) :
            \/ voices[i].adsr.envelopeVal < voices[j].adsr.envelopeVal
            \/ /\ voices[i].adsr.envelopeVal = voices[j].adsr.envelopeVal
               /\ voices[i].noteOnTime <= voices[j].noteOnTime

findFreeVoice_NoSteal(voices, midiNoteNumber, stealIfNoneAvailable) ==
    LET idle == {i \in VoiceIdx(voices) : ~isVoiceActive(voices[i])}
    IN IF idle # {} THEN CHOOSE i \in idle : \A j \in idle : i <= j ELSE 0

\* Synthesiser::findVoiceToSteal (the default policy; note stealing is on)
findVoiceToSteal(voices, midiNoteNumber) ==
    LET all  == VoiceIdx(voices)
        low  == LowVoice(voices)
        top  == TopVoice(voices)
        same == {i \in all : voices[i].currentlyPlayingNote = midiNoteNumber}
        free == {i \in all : i # low /\ i # top}
        rel  == {i \in free : isPlayingButReleased(voices[i])}
        up   == {i \in free : ~voices[i].keyDown}
    IN IF same # {} THEN Oldest(voices, same)
       ELSE IF rel # {} THEN Oldest(voices, rel)
       ELSE IF up # {} THEN Oldest(voices, up)
       ELSE IF free # {} THEN Oldest(voices, free)
       ELSE IF top # 0 THEN top
       ELSE low

\* variant: a sounding voice is taken even while another one is idle
findFreeVoice_StealFirst(voices, midiNoteNumber, stealIfNoneAvailable) ==
    LET idle == {i \in VoiceIdx(voices) : ~isVoiceActive(voices[i])}
    IN IF stealIfNoneAvailable /\ idle # VoiceIdx(voices)
       THEN findVoiceToSteal(voices, midiNoteNumber)
       ELSE IF idle # {} THEN CHOOSE i \in idle : \A j \in idle : i <= j
       ELSE 0

\* Synthesiser::findFreeVoice: 0 stands for nullptr
findFreeVoice(voices, midiNoteNumber, stealIfNoneAvailable) ==
    LET idle == {i \in VoiceIdx(voices) : ~isVoiceActive(voices[i])}
    IN IF idle # {} THEN CHOOSE i \in idle : \A j \in idle : i <= j
       ELSE IF stealIfNoneAvailable /\ voices # <<>>
            THEN findVoiceToSteal(voices, midiNoteNumber)
            ELSE 0

\* Synthesiser::startVoice
startVoice(s, i, midiNoteNumber, p, rt) ==
    IF i = 0 THEN s
    ELSE LET v0 == IF s.voices[i].hasSound THEN stopNote(s.voices[i], FALSE)
                   ELSE s.voices[i]
             v1 == [v0 EXCEPT !.currentlyPlayingNote = midiNoteNumber,
                              !.noteOnTime = s.lastNoteOnCounter + 1,
                              !.hasSound = TRUE,
                              !.keyDown = TRUE]
         IN [s EXCEPT !.lastNoteOnCounter = s.lastNoteOnCounter + 1,
                      !.voices[i] = startNote(v1, midiNoteNumber, 1000, p, rt)]

\* Synthesiser::noteOn; the log entry is history for the properties
noteOn(s, midiNoteNumber, p, rt) ==
    IF s.numSounds = 0 THEN s
    ELSE LET stopped == [i \in VoiceIdx(s.voices) |->
                            IF s.voices[i].currentlyPlayingNote = midiNoteNumber
                            THEN stopNote(s.voices[i], TRUE)
                            ELSE s.voices[i]]
             s1 == [s EXCEPT !.voices = stopped]
             i  == findFreeVoice(stopped, midiNoteNumber, TRUE)
             s2 == startVoice(s1, i, midiNoteNumber, p, rt)
         IN [s2 EXCEPT !.log = Append(s.log, [note |-> midiNoteNumber,
                                              pre |-> s.voices,
                                              voice |-> i,
                                              post |-> s2.voices])]

\* Synthesiser::noteOff with allowTailOff = true (handleMidiEvent)
noteOff(s, midiNoteNumber) ==
    [s EXCEPT !.voices =
        [i \in VoiceIdx(s.voices) |->
            IF s.voices[i].currentlyPlayingNote = midiNoteNumber /\ s.voices[i].hasSound
            THEN stopNote([s.voices[i] EXCEPT !.keyDown = FALSE], TRUE)
            ELSE s.voices[i]]]

handleMidiEvent(s, e, p, rt) ==
    CASE e.kind = "on"  -> noteOn(s, e.note, p, rt)
      [] e.kind = "off" -> noteOff(s, e.note)
      [] OTHER          -> s

\* the sub-blocks of one call cover disjoint samples, so the peak of the
\* call is the largest of theirs
louder(a, b) == [left |-> Max(a.left, b.left), right |-> Max(a.right, b.right)]

renderVoices(s, numSamples) ==
    [s EXCEPT !.voices = [i \in VoiceIdx(s.voices) |->
                             renderNextBlock(s.voices[i], numSamples)],
              !.out = louder(s.out, mixVoices(s.voices, numSamples, 1))]

RECURSIVE handleFrom(_, _, _, _, _)
handleFrom(s, events, i, p, rt) ==
    IF i > Len(events) THEN s
    ELSE handleFrom(handleMidiEvent(s, events[i], p, rt), events, i + 1, p, rt)

\* Synthesiser::processNextBlock: events and sub-block renders interleaved
RECURSIVE processNextBlock(_, _, _, _, _, _, _, _)
processNextBlock(s, events, i, startSample, numSamples, firstEvent, p, rt) ==
    IF numSamples <= 0 THEN handleFrom(s, events, i, p, rt)
    ELSE IF i > Len(events) THEN renderVoices(s, numSamples)
    ELSE LET e   == events[i]
             gap == e.pos - startSample
         IN IF gap >= numSamples
            THEN handleFrom(handleMidiEvent(renderVoices(s, numSamples), e, p, rt),
                            events, i, p, rt)
            ELSE IF gap < (IF firstEvent THEN 1 ELSE minimumSubBlockSize)
            THEN processNextBlock(handleMidiEvent(s, e, p, rt), events, i + 1,
                                  startSample, numSamples, firstEvent, p, rt)
            ELSE processNextBlock(handleMidiEvent(renderVoices(s, gap), e, p, rt),
                                  events, i + 1, startSample + gap,
                                  numSamples - gap, FALSE, p, rt)

\* runtime.synth.renderNextBlock (buffer, midiBuffer, 0, numSamples)
synthRenderNextBlock(rt, p, numSamples) ==
    processNextBlock([voices |-> rt.voices, numSounds |-> rt.numSounds,
                      lastNoteOnCounter |-> rt.lastNoteOnCounter, log |-> <<>>,
                      out |-> Silence],
                     rt.midiBuffer, 1, 0, numSamples, TRUE, p, rt)

\* ------------------------------------------------------------------------
\* MIDI routing
\* ------------------------------------------------------------------------
RECURSIVE addEvent_Before(_, _)
addEvent_Before(buf, e) ==
    IF buf = <<>> THEN <<e>>
    ELSE IF Head(buf).pos >= e.pos THEN <<e>> \o buf
    ELSE <<Head(buf)>> \o addEvent_Before(Tail(buf), e)

\* MidiBuffer::addEvent: after every event stamped at or before pos
RECURSIVE addEvent(_, _)
addEvent(buf, e) ==
    IF buf = <<>> THEN <<e>>
    ELSE IF Head(buf).pos > e.pos THEN <<e>> \o buf
    ELSE <<Head(buf)>> \o addEvent(Tail(buf), e)

\* variants of the definitions above and below, as plausible slips would make them
isKeyswitch_Strict(e) ==
    /\ e.kind = "on"
    /\ e.note - articulationKeyswitchBaseNote > 0
    /\ e.note - articulationKeyswitchBaseNote < numArticulations

isKeyswitch_AnyKind(e) ==
    /\ e.note - articulationKeyswitchBaseNote >= 0
    /\ e.note - articulationKeyswitchBaseNote < numArticulations

isKeyswitch_Wide(e) ==
    /\ e.kind = "on"
    /\ e.note - articulationKeyswitchBaseNote >= 0
    /\ e.note - articulationKeyswitchBaseNote <= numArticulations

isKeyswitch(e) ==
    /\ e.kind = "on"
    /\ e.note - articulationKeyswitchBaseNote >= 0
    /\ e.note - articulationKeyswitchBaseNote < numArticulations

splitOne_NoOffset(runtime, e) ==
    LET sectionIndex == e.ch
    IN IF sectionIndex < 0 \/ sectionIndex >= numSections THEN runtime
       ELSE IF isKeyswitch(e)
       THEN [runtime EXCEPT ![sectionIndex].currentArticulationIndex =
                                e.note - articulationKeyswitchBaseNote]
       ELSE [runtime EXCEPT ![sectionIndex].midiBuffer =
                                addEvent(runtime[sectionIndex].midiBuffer, e)]

splitOne_Broadcast(runtime, e) ==
    LET sectionIndex == e.ch - 1
    IN IF sectionIndex < 0 \/ sectionIndex >= numSections THEN runtime
       ELSE IF isKeyswitch(e)
       THEN [runtime EXCEPT ![sectionIndex].currentArticulationIndex =
                                e.note - articulationKeyswitchBaseNote]
       ELSE [sec \in Sections |->
                [runtime[sec] EXCEPT !.midiBuffer = addEvent(runtime[sec].midiBuffer, e)]]

\* variant: a keyswitch selects the articulation of every section
splitOne_AllSections(runtime, e) ==
    LET sectionIndex == e.ch - 1
    IN IF sectionIndex < 0 \/ sectionIndex >= numSections THEN runtime
       ELSE IF isKeyswitch(e)
       THEN [sec \in Sections |->
                [runtime[sec] EXCEPT !.currentArticulationIndex =
                                         e.note - articulationKeyswitchBaseNote]]
       ELSE [runtime EXCEPT ![sectionIndex].midiBuffer =
                                addEvent(runtime[sectionIndex].midiBuffer, e)]

\* one pass of the loop of splitMidiBySection
splitOne(runtime, e) ==
    LET sectionIndex == e.ch - 1
    IN IF sectionIndex < 0 \/ sectionIndex >= numSections THEN runtime
       ELSE IF isKeyswitch(e)
       THEN [runtime EXCEPT ![sectionIndex].currentArticulationIndex =
                                e.note - articulationKeyswitchBaseNote]
       ELSE [runtime EXCEPT ![sectionIndex].midiBuffer =
                                addEvent(runtime[sectionIndex].midiBuffer, e)]

RECURSIVE splitLoop(_, _)
splitLoop(runtime, stream) ==
    IF stream = <<>> THEN runtime
    ELSE splitLoop(splitOne(runtime, Head(stream)), Tail(stream))

splitMidiBySection_NoClear(runtime, stream) ==
    [runtime |-> splitLoop([sec \in Sections |->
                               [runtime[sec] EXCEPT !.midiBuffer = <<>>]], stream),
     midi |-> stream]

\* the per-section queues are cleared, filled from the stream, and the
\* caller's buffer is cleared
splitMidiBySection(runtime, stream) ==
    [runtime |-> splitLoop([sec \in Sections |->
                               [runtime[sec] EXCEPT !.midiBuffer = <<>>]], stream),
     midi |-> <<>>]

\* ------------------------------------------------------------------------
\* Parameter store: juce::ValueTree, juce::var and the PresetManager hooks.
\* A tree is [type, props, children]; the invalid tree has an empty type.
\* A var is [kind, value]: an int, or a double in thousandths.
\* ------------------------------------------------------------------------
InvalidTree == [type |-> "", props |-> <<>>, children |-> <<>>]
ValueTree(type) == [type |-> type, props |-> <<>>, children |-> <<>>]
isValid(t) == t.type # ""

setProperty(t, id, v) == [t EXCEPT !.props = (id :> v) @@ t.props]
getProperty(t, id, default) == IF id \in DOMAIN t.props THEN t.props[id] ELSE default
addChild(t, child) == [t EXCEPT !.children = Append(t.children, child)]

getChildWithName(t, id) ==
    LET hits == {i \in DOMAIN t.children : t.children[i].type = id}
    IN IF hits = {} THEN InvalidTree
       ELSE t.children[CHOOSE i \in hits : \A j \in hits : i <= j]

\* the float fields the model keeps in whole units (Hz, ms, a factor); the
\* others are kept in thousandths already
WholeUnitFields == {"cutoff", "attackMs", "releaseMs", "oversampleFactor"}
ThousandthsPer(field) == IF field \in WholeUnitFields THEN 1000 ELSE 1

\* var (int), var (double) from a float, and the casts (int) var, (float) var
varOfInt(n) == [kind |-> "int", value |-> n]
varOfFloat(field, x) == [kind |-> "double", value |-> x * ThousandthsPer(field)]
intOfVar(v) ==
    IF v.kind = "int" THEN v.value
    ELSE IF v.value >= 0 THEN v.value \div 1000 ELSE -((-v.value) \div 1000)
floatOfVar(field, v) ==
    (IF v.kind = "double" THEN v.value ELSE v.value * 1000) \div ThousandthsPer(field)

SectionNames == <<"strings", "brass", "woodwinds", "percussion", "choir">>
sectionName(sec) == SectionNames[sec + 1]

\* variant: one of the ten properties is not written
serialiseSection_NoPan(p, name) ==
    LET t0 == ValueTree(name)
        t1 == setProperty(t0, "maxVoices", varOfInt(p.maxVoices))
        t2 == setProperty(t1, "gain", varOfFloat("gain", p.gain))
        t4 == setProperty(t2, "cutoff", varOfFloat("cutoff", p.cutoff))
        t5 == setProperty(t4, "resonance", varOfFloat("resonance", p.resonance))
        t6 == setProperty(t5, "attackMs", varOfFloat("attackMs", p.attackMs))
        t7 == setProperty(t6, "releaseMs", varOfFloat("releaseMs", p.releaseMs))
        t8 == setProperty(t7, "reverbSend", varOfFloat("reverbSend", p.reverbSend))
        t9 == setProperty(t8, "oversampleFactor",
                          varOfFloat("oversampleFactor", p.oversampleFactor))
    IN setProperty(t9, "articulationIndex", varOfInt(p.articulationIndex))

\* the body of the loop of serialiseToValueTree: one section's record
serialiseSection(p, name) ==
    LET t0 == ValueTree(name)
        t1 == setProperty(t0, "maxVoices", varOfInt(p.maxVoices))
        t2 == setProperty(t1, "gain", varOfFloat("gain", p.gain))
        t3 == setProperty(t2, "pan", varOfFloat("pan", p.pan))
        t4 == setProperty(t3, "cutoff", varOfFloat("cutoff", p.cutoff))
        t5 == setProperty(t4, "resonance", varOfFloat("resonance", p.resonance))
        t6 == setProperty(t5, "attackMs", varOfFloat("attackMs", p.attackMs))
        t7 == setProperty(t6, "releaseMs", varOfFloat("releaseMs", p.releaseMs))
        t8 == setProperty(t7, "reverbSend", varOfFloat("reverbSend", p.reverbSend))
        t9 == setProperty(t8, "oversampleFactor",
                          varOfFloat("oversampleFactor", p.oversampleFactor))
    IN setProperty(t9, "articulationIndex", varOfInt(p.articulationIndex))

RECURSIVE serialiseFrom(_, _, _)
serialiseFrom(dest, params, sec) ==
    IF sec >= numSections THEN dest
    ELSE serialiseFrom(addChild(dest, serialiseSection(params[sec], sectionName(sec))),
                       params, sec + 1)

serialiseToValueTree(dest, params) == serialiseFrom(dest, params, 0)

\* variant: a property that is absent falls back to the struct's default
loadSection_Defaults(p, src, id) ==
    LET t == getChildWithName(src, id)
        d == DefaultSectionParams
    IN IF ~isValid(t) THEN p
       ELSE [maxVoices |-> intOfVar(getProperty(t, "maxVoices", varOfInt(d.maxVoices))),
             gain |-> floatOfVar("gain", getProperty(t, "gain", varOfFloat("gain", d.gain))),
             pan |-> floatOfVar("pan", getProperty(t, "pan", varOfFloat("pan", d.pan))),
             cutoff |-> floatOfVar("cutoff",
                           getProperty(t, "cutoff", varOfFloat("cutoff", d.cutoff))),
             resonance |-> floatOfVar("resonance",
                           getProperty(t, "resonance", varOfFloat("resonance", d.resonance))),
             attackMs |-> floatOfVar("attackMs",
                           getProperty(t, "attackMs", varOfFloat("attackMs", d.attackMs))),
             releaseMs |-> floatOfVar("releaseMs",
                           getProperty(t, "releaseMs", varOfFloat("releaseMs", d.releaseMs))),
             reverbSend |-> floatOfVar("reverbSend",
                           getProperty(t, "reverbSend", varOfFloat("reverbSend", d.reverbSend))),
             oversampleFactor |-> floatOfVar("oversampleFactor",
                           getProperty(t, "oversampleFactor",
                                       varOfFloat("oversampleFactor", d.oversampleFactor))),
             articulationIndex |-> intOfVar(getProperty(t, "articulationIndex",
                                                        varOfInt(d.articulationIndex)))]

\* the lambda loadSection of deserialiseFromValueTree
loadSection(p, src, id) ==
    LET t == getChildWithName(src, id)
    IN IF ~isValid(t) THEN p
       ELSE [maxVoices |-> intOfVar(getProperty(t, "maxVoices", varOfInt(p.maxVoices))),
             gain |-> floatOfVar("gain", getProperty(t, "gain", varOfFloat("gain", p.gain))),
             pan |-> floatOfVar("pan", getProperty(t, "pan", varOfFloat("pan", p.pan))),
             cutoff |-> floatOfVar("cutoff",
                           getProperty(t, "cutoff", varOfFloat("cutoff", p.cutoff))),
             resonance |-> floatOfVar("resonance",
                           getProperty(t, "resonance", varOfFloat("resonance", p.resonance))),
             attackMs |-> floatOfVar("attackMs",
                           getProperty(t, "attackMs", varOfFloat("attackMs", p.attackMs))),
             releaseMs |-> floatOfVar("releaseMs",
                           getProperty(t, "releaseMs", varOfFloat("releaseMs", p.releaseMs))),
             reverbSend |-> floatOfVar("reverbSend",
                           getProperty(t, "reverbSend", varOfFloat("reverbSend", p.reverbSend))),
             oversampleFactor |-> floatOfVar("oversampleFactor",
                           getProperty(t, "oversampleFactor",
                                       varOfFloat("oversampleFactor", p.oversampleFactor))),
             articulationIndex |-> intOfVar(getProperty(t, "articulationIndex",
                                                        varOfInt(p.articulationIndex)))]

deserialiseFromValueTree(params, src) ==
    [sec \in Sections |-> loadSection(params[sec], src, sectionName(sec))]

\* the preset names in use; no blocks: the tree has not been made yet
PresetNames == {"a", "b"}
NoBlocks == <<>>
NoLoad == [op |-> "none", prior |-> NoBlocks, src |-> InvalidTree, name |-> ""]

\* PresetManager: presets maps a name to a var, void until the name is saved
varVoid == [kind |-> "void", value |-> 0]
varOfTree(t) == [kind |-> "object", value |-> t]
isObject(v) == v.kind = "object"

\* variant: a name that is already stored keeps its first tree
presetManagerSavePreset_KeepFirst(store, name, params) ==
    IF isObject(store[name]) THEN store
    ELSE LET sectionsTree == serialiseToValueTree(ValueTree("sections"), params)
             presetTree == addChild(setProperty(ValueTree("orchestraPreset"), "name",
                                                [kind |-> "string", value |-> name]),
                                    sectionsTree)
         IN [store EXCEPT ![name] = varOfTree(presetTree)]

\* PresetManager::savePreset; the sections child is shared with the tree
\* serialiseToValueTree fills, so the stored tree holds the filled child
presetManagerSavePreset(store, name, params) ==
    LET sectionsTree == serialiseToValueTree(ValueTree("sections"), params)
        presetTree == addChild(setProperty(ValueTree("orchestraPreset"), "name",
                                           [kind |-> "string", value |-> name]),
                               sectionsTree)
    IN [store EXCEPT ![name] = varOfTree(presetTree)]

\* variant: a name that is not stored loads the constructor's defaults
presetManagerLoadPreset_DefaultsOnMiss(store, name, params) ==
    IF ~isObject(store[name]) THEN ConstructedParams
    ELSE LET sections == getChildWithName(store[name].value, "sections")
         IN IF isValid(sections) THEN deserialiseFromValueTree(params, sections)
            ELSE params

\* PresetManager::loadPreset: the parameter blocks it leaves
presetManagerLoadPreset(store, name, params) ==
    IF ~isObject(store[name]) THEN params
    ELSE LET sections == getChildWithName(store[name].value, "sections")
         IN IF isValid(sections) THEN deserialiseFromValueTree(params, sections)
            ELSE params

\* variant: tails are allowed whatever the caller asks
allNotesOff_KeepTail(rt, allowTailOff) ==
    [rt EXCEPT !.voices = [i \in VoiceIdx(rt.voices) |-> stopNote(rt.voices[i], TRUE)]]

\* juce::Synthesiser::allNotesOff (0, allowTailOff): stopNote on every voice
allNotesOff(rt, allowTailOff) ==
    [rt EXCEPT !.voices = [i \in VoiceIdx(rt.voices) |->
                              stopNote(rt.voices[i], allowTailOff)]]

\* ------------------------------------------------------------------------
\* The two post-processing stages as components.  A bus here is its two
\* channel peaks, its length, and whether a convolution or a half-band
\* filter pair has run over it; a call gives the bus back with a status,
\* "fault" standing for a juce object used before it exists or is prepared.
\* ------------------------------------------------------------------------
\* ConvolutionEngine as constructed: not prepared, juce::dsp::Convolution
\* holding no impulse response.  lastFile and decoded are history: the file
\* last given to loadImpulseResponse, and whether one ever decoded.
NewConvolutionEngine ==
    [prepared |-> FALSE, impulse |-> <<>>, lastFile |-> <<>>, decoded |-> FALSE]

NewOversampler ==
    [prepared |-> FALSE, enabled |-> TRUE, oversampling |-> FALSE,
     lastOversampleFactor |-> 1]

emptyBuffer == [channels |-> 0, length |-> 0]

returned(b, status) == [buffer |-> b, status |-> status]

convolutionPrepare(conv) == [conv EXCEPT !.prepared = TRUE]

\* Loader::loadImpulse: an empty buffer unless the file exists and a reader
\* can be made for it
loadImpulse(file) ==
    IF ~file.exists THEN emptyBuffer
    ELSE IF ~file.decodes THEN emptyBuffer
    ELSE [channels |-> file.channels, length |-> file.length]

\* variant: whatever the loader returned becomes the impulse response
loadImpulseResponse_Installs(conv, file) ==
    [conv EXCEPT !.impulse = <<loadImpulse(file)>>,
                 !.lastFile = <<file>>,
                 !.decoded = @ \/ loadImpulse(file) # emptyBuffer]

\* loadImpulseResponse: the decoded buffer is dropped (juce::ignoreUnused)
loadImpulseResponse(conv, file) ==
    [conv EXCEPT !.lastFile = <<file>>,
                 !.decoded = @ \/ loadImpulse(file) # emptyBuffer]

\* juce::dsp::Convolution::process with a replacing context: the bus as it
\* is while no impulse response is installed, else the bus convolved
juceConvolutionProcess(prepared, impulse, b) ==
    IF ~prepared THEN returned(b, "fault")
    ELSE IF impulse = <<>> THEN returned(b, "ok")
    ELSE IF impulse[1].length = 0
         THEN returned([b EXCEPT !.left = 0, !.right = 0], "ok")
         ELSE returned([b EXCEPT !.convolved = TRUE], "ok")

\* ConvolutionEngine::process
convolutionProcess(conv, b) ==
    IF ~conv.prepared THEN returned(b, "ok")
    ELSE juceConvolutionProcess(conv.prepared, conv.impulse, b)

\* Oversampler::prepare: the juce::dsp::Oversampling object is made, then
\* prepared is set
oversamplerPrepare(os) == [os EXCEPT !.oversampling = TRUE, !.prepared = TRUE]

setEnabled(os, shouldEnable) == [os EXCEPT !.enabled = shouldEnable]

\* processSamplesUp then processSamplesDown through the (possibly null)
\* pointer: the half-band filters have run over the bus
juceOversamplingUpDown(os, b) ==
    IF ~os.oversampling THEN returned(b, "fault")
    ELSE returned([b EXCEPT !.filtered = TRUE], "ok")

\* variant: the prepared test is missing
oversamplerProcess_NoPreparedGuard(os, b) ==
    IF ~os.enabled THEN [os |-> os, ret |-> returned(b, "ok")]
    ELSE IF b.numSamples <= 0 THEN [os |-> os, ret |-> returned(b, "ok")]
    ELSE [os |-> [os EXCEPT !.lastOversampleFactor = 2],
          ret |-> juceOversamplingUpDown(os, b)]

\* Oversampler::process: the oversampler and what it gives back
oversamplerProcess(os, b) ==
    IF ~os.prepared THEN [os |-> os, ret |-> returned(b, "ok")]
    ELSE IF ~os.enabled THEN [os |-> os, ret |-> returned(b, "ok")]
    ELSE IF b.numSamples <= 0 THEN [os |-> os, ret |-> returned(b, "ok")]
    ELSE [os |-> [os EXCEPT !.lastOversampleFactor = 2],
          ret |-> juceOversamplingUpDown(os, b)]

\* ------------------------------------------------------------------------
\* The plugin's state block: a tree written to and read from a stream.
\* A block is the sequence of items the stream holds, each a string, a
\* compressed int or a var; a read beyond the end, or of an item of another
\* kind, gives the empty string or zero, as an exhausted stream does.
\* ------------------------------------------------------------------------
emptyBlock == <<>>
stringItem(str) == [item |-> "string", value |-> str]
intItem(n) == [item |-> "int", value |-> n]
varItem(v) == [item |-> "var", value |-> v]

\* the identifiers a tree of this program may carry, in the order written
Identifiers ==
    <<"name", "maxVoices", "gain", "pan", "cutoff", "resonance", "attackMs",
      "releaseMs", "reverbSend", "oversampleFactor", "articulationIndex">>

RECURSIVE writeProperties(_, _)
writeProperties(t, i) ==
    IF i > Len(Identifiers) THEN <<>>
    ELSE (IF Identifiers[i] \in DOMAIN t.props
          THEN <<stringItem(Identifiers[i]), varItem(t.props[Identifiers[i]])>>
          ELSE <<>>) \o writeProperties(t, i + 1)

\* juce::ValueTree::writeToStream: type, properties, children
RECURSIVE writeToStream(_)
RECURSIVE writeChildren(_, _)
writeChildren(t, i) ==
    IF i > Len(t.children) THEN <<>>
    ELSE writeToStream(t.children[i]) \o writeChildren(t, i + 1)

writeToStream(t) ==
    IF ~isValid(t) THEN <<stringItem(""), intItem(0), intItem(0)>>
    ELSE <<stringItem(t.type), intItem(Cardinality(DOMAIN t.props))>>
         \o writeProperties(t, 1)
         \o <<intItem(Len(t.children))>>
         \o writeChildren(t, 1)

readString(data, at) ==
    IF at <= Len(data) /\ data[at].item = "string" THEN data[at].value ELSE ""
readCompressedInt(data, at) ==
    IF at <= Len(data) /\ data[at].item = "int" THEN data[at].value ELSE 0
readVar(data, at) ==
    IF at <= Len(data) /\ data[at].item = "var" THEN data[at].value ELSE varVoid

\* the property loop of readFromStream: a pair with an empty name is skipped
RECURSIVE readProperties(_, _, _, _)
readProperties(t, data, at, n) ==
    IF n <= 0 THEN [tree |-> t, at |-> at]
    ELSE LET name == readString(data, at)
         IN IF name # ""
            THEN readProperties(setProperty(t, name, readVar(data, at + 1)),
                                data, at + 2, n - 1)
            ELSE readProperties(t, data, at + 1, n - 1)

\* juce::ValueTree::readFromStream from a position: the tree and the
\* position after it; an empty type gives the invalid tree, and the child
\* loop ends at the first child that is invalid
RECURSIVE readTreeAt(_, _)
RECURSIVE readChildren(_, _, _, _)
readChildren(t, data, at, n) ==
    IF n <= 0 THEN [tree |-> t, at |-> at]
    ELSE LET child == readTreeAt(data, at)
         IN IF ~isValid(child.tree) THEN [tree |-> t, at |-> child.at]
            ELSE readChildren(addChild(t, child.tree), data, child.at, n - 1)

readTreeAt(data, at) ==
    LET type == readString(data, at)
    IN IF type = "" THEN [tree |-> InvalidTree, at |-> at + 1]
       ELSE LET numProps == readCompressedInt(data, at + 1)
                withProps == readProperties(ValueTree(type), data, at + 2, numProps)
                numChildren == readCompressedInt(data, withProps.at)
            IN readChildren(withProps.tree, data, withProps.at + 1, numChildren)

readFromStream(data) == readTreeAt(data, 1).tree

\* variant: the engine fills the root itself
stateInformation_Flat(params) ==
    writeToStream(serialiseToValueTree(ValueTree("orchestraSynthState"), params))

\* what getStateInformation leaves in destData: the root is given its
\* "sections" child, the engine fills that child, the root is written
stateInformation(params) ==
    LET root == ValueTree("orchestraSynthState")
        sections == serialiseToValueTree(ValueTree("sections"), params)
    IN writeToStream(addChild(root, sections))

\* the parameter blocks setStateInformation leaves
restoredFrom(params, data) ==
    LET root == readFromStream(data)
    IN IF ~isValid(root) THEN params
       ELSE LET sections == getChildWithName(root, "sections")
            IN IF isValid(sections) THEN deserialiseFromValueTree(params, sections)
               ELSE params

\* ------------------------------------------------------------------------
\* MixerComponent's typing keyboard.  A key code is the lower-case
\* character; a message is an event as the engine's router sees it.
\* focus names the component that holds the keyboard focus: the mixer, its
\* KeyboardFocusSentinel child (which hands its key events to the mixer), or
\* neither.  posted holds what the last handler posted, as a bag: the order in which
\* allNotesOffFromKeyboard walks its unordered_map is not fixed.  open and
\* stray are history: the note-ons posted and not yet answered per note and
\* channel, and the note-offs that answered none.
\* ------------------------------------------------------------------------
keyboardBaseNote == 60
octaveStep == 12
minOffset == -36
maxOffset == 36

jlimit(lo, hi, x) == IF x < lo THEN lo ELSE IF x > hi THEN hi ELSE x

\* whiteKeyMappings and blackKeyMappings: key -> semitoneOffset
KeyMappings ==
    [keyChar \in {"a", "s", "d", "f", "g", "h", "j", "k", "l", ";",
                  "w", "e", "r", "t", "u", "i", "o"} |->
        CASE keyChar = "a" -> 0  [] keyChar = "s" -> 2  [] keyChar = "d" -> 4
          [] keyChar = "f" -> 5  [] keyChar = "g" -> 7  [] keyChar = "h" -> 9
          [] keyChar = "j" -> 11 [] keyChar = "k" -> 12 [] keyChar = "l" -> 14
          [] keyChar = ";" -> 16 [] keyChar = "w" -> 1  [] keyChar = "e" -> 3
          [] keyChar = "r" -> 6  [] keyChar = "t" -> 8  [] keyChar = "u" -> 10
          [] keyChar = "i" -> 13 [] keyChar = "o" -> 15]

playableKeyCodes == DOMAIN KeyMappings

noteOnMessage(channel, midiNote) ==
    [kind |-> "on", ch |-> channel, note |-> midiNote, pos |-> 0]
noteOffMessage(channel, midiNote) ==
    [kind |-> "off", ch |-> channel, note |-> midiNote, pos |-> 0]

NewMixer ==
    [alive |-> TRUE, focus |-> "sentinel", keysDown |-> {},
     activeKeyStates |-> <<>>,
     keyboardOctaveOffset |-> 0, multitimbralCount |-> 1,
     posted |-> EmptyBag, open |-> EmptyBag, stray |-> EmptyBag]

\* the channels 1 .. sectionsToTrigger, as a set
buildChannelListForNewNote(m) ==
    1 .. jlimit(1, numSections, m.multitimbralCount)

RECURSIVE messagesOn(_, _, _)
messagesOn(kind, channels, midiNote) ==
    IF channels = {} THEN EmptyBag
    ELSE LET channel == CHOOSE c \in channels : TRUE
         IN SetToBag({[kind |-> kind, ch |-> channel, note |-> midiNote, pos |-> 0]})
            (+) messagesOn(kind, channels \ {channel}, midiNote)

\* engine.postVirtualMidiMessage for every message of a bag, and the history
RECURSIVE answer(_, _, _)
answer(m, offs, keys) ==
    IF keys = {} THEN m
    ELSE LET e    == CHOOSE x \in keys : TRUE
             on   == [e EXCEPT !.kind = "on"]
             n    == CopiesIn(e, offs)
             have == CopiesIn(on, m.open)
             take == IF n <= have THEN n ELSE have
             gone == [x \in {on} |-> take]
             left == [x \in {e} |-> n - take]
         IN answer([m EXCEPT !.open = IF take > 0 THEN @ (-) gone ELSE @,
                             !.stray = IF n > take THEN @ (+) left ELSE @],
                   offs, keys \ {e})

postVirtualMidiMessages(m, messages) ==
    LET ons  == [e \in {x \in BagToSet(messages) : x.kind = "on"} |-> messages[e]]
        offs == [e \in {x \in BagToSet(messages) : x.kind = "off"} |-> messages[e]]
        m1   == [m EXCEPT !.posted = @ (+) messages, !.open = @ (+) ons]
    IN answer(m1, offs, BagToSet(offs))

sendNoteOff(m, state) ==
    postVirtualMidiMessages(m, messagesOn("off", state.channels, state.midiNote))

sendNoteOn(m, midiNote, channels) ==
    postVirtualMidiMessages(m, messagesOn("on", channels, midiNote))

\* "" stands for the nullptr of a key that is not mapped
findMappingForKey(keyCode) ==
    IF keyCode \in DOMAIN KeyMappings THEN keyCode ELSE ""

handleNoteKey(m, keyCode) ==
    IF findMappingForKey(keyCode) = "" THEN m
    ELSE IF keyCode \in DOMAIN m.activeKeyStates /\ m.activeKeyStates[keyCode].isDown
    THEN m
    ELSE LET midiNote == jlimit(0, 127, keyboardBaseNote + m.keyboardOctaveOffset
                                           + KeyMappings[keyCode])
             channels == buildChannelListForNewNote(m)
             state    == [isDown |-> TRUE, midiNote |-> midiNote, channels |-> channels]
             m1       == [m EXCEPT !.activeKeyStates =
                                       (keyCode :> state) @@ m.activeKeyStates]
         IN sendNoteOn(m1, midiNote, channels)

RECURSIVE sendNoteOffs(_, _)
sendNoteOffs(m, keys) ==
    IF keys = {} THEN m
    ELSE LET keyCode == CHOOSE k \in keys : TRUE
         IN sendNoteOffs(sendNoteOff(m, m.activeKeyStates[keyCode]), keys \ {keyCode})

\* the virtual keyboard's notes are not modelled: none is ever held
allNotesOffFromKeyboard(m) ==
    LET down == {k \in DOMAIN m.activeKeyStates : m.activeKeyStates[k].isDown}
    IN [sendNoteOffs(m, down) EXCEPT !.activeKeyStates = <<>>]

refreshReleasedKeys(m) ==
    LET released == {k \in playableKeyCodes :
                        k \in DOMAIN m.activeKeyStates /\ k \notin m.keysDown}
        m1 == sendNoteOffs(m, released)
    IN [m1 EXCEPT !.activeKeyStates =
                     [k \in DOMAIN m.activeKeyStates \ released |-> m.activeKeyStates[k]]]

\* handleOctaveKey for 'x' (step = -octaveStep) and 'c' (step = octaveStep)
handleOctaveKey(m, step) ==
    LET offset == jlimit(minOffset, maxOffset, m.keyboardOctaveOffset + step)
        m1 == [m EXCEPT !.keyboardOctaveOffset = offset]
    IN IF offset # m.keyboardOctaveOffset THEN allNotesOffFromKeyboard(m1) ELSE m1

\* handleMultitimbralKey for 'v' (step = -1) and 'b' (step = 1)
handleMultitimbralKey(m, step) ==
    [m EXCEPT !.multitimbralCount = jlimit(1, numSections, m.multitimbralCount + step)]

\* ------------------------------------------------------------------------
\* Operations
\* ------------------------------------------------------------------------
\* variant: the voice loop runs once too often
prepare_ExtraVoice ==
    /\ sectionRuntime' =
          [sec \in Sections |->
              [sectionRuntime[sec] EXCEPT
                  !.voices = [v \in 1 .. sectionParams[sec].maxVoices + 1 |-> NewVoice],
                  !.numSounds = 1]]
    /\ convolutionReverb' = convolutionPrepare(convolutionReverb)
    /\ oversampler' = oversamplerPrepare(oversampler)
    /\ resetFound' = NoReset
    /\ UNCHANGED <<sectionParams, midi, lastIn, noteOnLog, sent, host>>
    /\ UNCHANGED <<audioVars, storeVars>>

\* variant: the pools are not cleared before voices and sound are added
prepare_Grows ==
    /\ sectionRuntime' =
          [sec \in Sections |->
              [sectionRuntime[sec] EXCEPT
                  !.voices = @ \o [v \in 1 .. sectionParams[sec].maxVoices |-> NewVoice],
                  !.numSounds = @ + 1]]
    /\ convolutionReverb' = convolutionPrepare(convolutionReverb)
    /\ oversampler' = oversamplerPrepare(oversampler)
    /\ resetFound' = NoReset
    /\ UNCHANGED <<sectionParams, midi, lastIn, noteOnLog, sent, host>>
    /\ UNCHANGED <<audioVars, storeVars>>

\* prepare: the shared stages are prepared and every pool is rebuilt with
\* maxVoices fresh voices and one sound
prepare ==
    /\ sectionRuntime' =
          [sec \in Sections |->
              [sectionRuntime[sec] EXCEPT
                  !.voices = [v \in 1 .. sectionParams[sec].maxVoices |-> NewVoice],
                  !.numSounds = 1]]
    /\ convolutionReverb' = convolutionPrepare(convolutionReverb)
    /\ oversampler' = oversamplerPrepare(oversampler)
    /\ resetFound' = NoReset
    /\ UNCHANGED <<sectionParams, midi, lastIn, noteOnLog, sent, host>>
    /\ UNCHANGED <<audioVars, storeVars>>

\* the render loop of processBlock: each section's synth on its own queue
renderSections(split, params, numSamples) ==
    [sec \in Sections |->
        synthRenderNextBlock(split.runtime[sec], params[sec], numSamples)]

blockResult(split, done) ==
    [runtime |-> [sec \in Sections |->
                     [split.runtime[sec] EXCEPT
                         !.voices = done[sec].voices,
                         !.lastNoteOnCounter = done[sec].lastNoteOnCounter]],
     midi |-> split.midi,
     log |-> [sec \in Sections |-> done[sec].log],
     out |-> [sec \in Sections |-> done[sec].out]]

renderSplit(split, params, numSamples) ==
    blockResult(split, renderSections(split, params, numSamples))

\* what processBlock leaves behind, given the stream and the buffer length
processBlockResult(runtime, params, stream, numSamples) ==
    renderSplit(splitMidiBySection(runtime, stream), params, numSamples)

RECURSIVE mixSections(_, _)
mixSections(out, sec) ==
    IF sec >= numSections THEN Silence
    ELSE LET r == mixSections(out, sec + 1)
         IN [left |-> out[sec].left + r.left, right |-> out[sec].right + r.right]

\* variant: the buffer is not cleared before the sections mix into it
processBlockBuffer_NoClear(held, out) ==
    LET mixed == mixSections(out, 0)
    IN [left |-> held.left + mixed.left, right |-> held.right + mixed.right]

\* variant: only the first channel is cleared
processBlockBuffer_ClearLeft(held, out) ==
    LET mixed == mixSections(out, 0)
    IN [left |-> mixed.left, right |-> held.right + mixed.right]

\* the buffer after buffer.clear() and the five synths adding into it
processBlockBuffer(held, out) ==
    LET cleared == Silence
        mixed   == mixSections(out, 0)
    IN [left |-> cleared.left + mixed.left, right |-> cleared.right + mixed.right]

\* the post-processing stages that act on the mix: each returns at once
\* until it has been prepared
\* Each entry names the call and how many sections had rendered when it
\* was made: the first oversampler call stands before the render loop, the
\* other two calls after it.
stageStep(name, rendered) == [stage |-> name, rendered |-> rendered]

processBlockStages ==
    (IF oversampler.prepared /\ oversampler.enabled
     THEN <<stageStep("beginOversampledBlock", 0)>> ELSE <<>>)
    \o (IF convolutionReverb.prepared
        THEN <<stageStep("convolutionReverb", numSections)>> ELSE <<>>)
    \o (IF oversampler.prepared /\ oversampler.enabled
        THEN <<stageStep("endOversampledBlock", numSections)>> ELSE <<>>)

\* one call of processBlock: seen is what the voices read through their
\* reference to sectionParams, held what the caller's buffer holds on entry
blockEffects(r, stream) ==
    /\ sectionRuntime' = r.runtime
    /\ midi' = r.midi
    /\ lastIn' = stream
    /\ noteOnLog' = r.log
    /\ \E held \in host.held :
          /\ buffer' = processBlockBuffer(held, r.out)
          /\ heldIn' = held
    /\ resetFound' = NoReset
    /\ stages' = processBlockStages
    /\ UNCHANGED <<host, dspVars, presets, tree, destData, strip, mixer, twin>>

leaveBlock(r) == blockEffects(r, midi) /\ UNCHANGED sent

renderBlock(numSamples, seen) ==
    leaveBlock(processBlockResult(sectionRuntime, seen, midi, numSamples))

processBlock(numSamples) ==
    /\ renderBlock(numSamples, sectionParams)
    /\ UNCHANGED <<sectionParams, saved>>

ProcessBlock == \E numSamples \in BlockSizes : processBlock(numSamples)

\* the host's audio callback with the block's events in hand:
\* OrchestraSynthAudioProcessor::processBlock passes buffer and stream on
\* to the engine (the channels it clears first are cleared again there)
pluginProcessBlock(numSamples, stream) ==
    /\ midi = <<>>
    /\ sent + Len(stream) <= host.budget
    /\ sent' = sent + Len(stream)
    /\ blockEffects(processBlockResult(sectionRuntime, sectionParams, stream,
                                       numSamples), stream)
    /\ UNCHANGED <<sectionParams, saved>>

\* the streams the host may deliver: one event, or two stamped in turn
BlockStreams ==
    {addEvent(<<>>, e) : e \in host.events}
    \cup {addEvent(addEvent(<<>>, e1), e2) : e1 \in host.events, e2 \in host.events}

PluginProcessBlock ==
    \E numSamples \in BlockSizes : \E stream \in BlockStreams :
        pluginProcessBlock(numSamples, stream)

\* the caller stamps one more event into the block's stream
HostAddEvent ==
    /\ sent < host.budget
    /\ Len(midi) < MaxEvents
    /\ \E e \in host.events :
          /\ midi' = addEvent(midi, e)
          /\ sent' = sent + 1
    /\ UNCHANGED <<sectionParams, sectionRuntime, lastIn, noteOnLog, host>>
    /\ UNCHANGED <<audioVars, resetFound, dspVars, storeVars>>

\* variant: the sounding voices of the section follow the new gain and pan
setSectionParams_Retroactive(index, params) ==
    /\ sectionParams' = [sectionParams EXCEPT ![index] = params]
    /\ sectionRuntime' =
          [sectionRuntime EXCEPT ![index].voices =
              [i \in VoiceIdx(sectionRuntime[index].voices) |->
                  [sectionRuntime[index].voices[i] EXCEPT
                      !.level = params.gain,
                      !.panLeft = updatePanGains(params.pan).left,
                      !.panRight = updatePanGains(params.pan).right]]]
    /\ saved' = [saved EXCEPT !.last = NoLoad]
    /\ UNCHANGED <<midi, lastIn, noteOnLog, sent, host>>
    /\ UNCHANGED <<audioVars, resetFound, dspVars, presets, tree, destData, strip, mixer, twin>>

\* setSectionParams: the whole block is replaced
setSectionParams(index, params) ==
    /\ sectionParams' = [sectionParams EXCEPT ![index] = params]
    /\ saved' = [saved EXCEPT !.last = NoLoad]
    /\ UNCHANGED <<sectionRuntime, midi, lastIn, noteOnLog, sent, host>>
    /\ UNCHANGED <<audioVars, resetFound, dspVars, presets, tree, destData, strip, mixer, twin>>

SetSectionParams ==
    \E index \in host.targets : \E params \in host.blocks :
        setSectionParams(index, params)

\* processBlock on the audio thread while the control thread is inside
\* setSectionParams (index, params).  Nothing orders the struct assignment
\* against startNote's reads of p.gain and p.pan (a data race), so each of the
\* two reads may see the field before or after its write; the assignment has
\* finished when the call returns.  One choice is made for the whole call.
processBlockDuringSet(numSamples, index, params) ==
    /\ \E gain \in {sectionParams[index].gain, params.gain} :
       \E pan \in {sectionParams[index].pan, params.pan} :
          renderBlock(numSamples,
                      [sectionParams EXCEPT ![index].gain = gain, ![index].pan = pan])
    /\ sectionParams' = [sectionParams EXCEPT ![index] = params]
    /\ saved' = [saved EXCEPT !.last = NoLoad]

ProcessBlockDuringSet ==
    \E numSamples \in BlockSizes : \E index \in host.targets : \E params \in host.blocks :
        /\ params # sectionParams[index]
        /\ processBlockDuringSet(numSamples, index, params)

\* reset: the two stages drop their history (no modelled state) and every
\* synth gets allNotesOff (0, false)
reset ==
    /\ sectionRuntime' = [sec \in Sections |-> allNotesOff(sectionRuntime[sec], FALSE)]
    /\ resetFound' = [sec \in Sections |-> sectionRuntime[sec].voices]
    /\ UNCHANGED <<sectionParams, midi, lastIn, noteOnLog, sent, host>>
    /\ UNCHANGED <<audioVars, dspVars, storeVars>>

\* the caller has a fresh "sections" tree filled (getStateInformation,
\* PresetManager::savePreset)
Serialise ==
    /\ tree' = serialiseToValueTree(ValueTree("sections"), sectionParams)
    /\ saved' = [saved EXCEPT !.tree = sectionParams]
    /\ UNCHANGED <<sectionParams, sectionRuntime, midi, lastIn, noteOnLog, sent, host>>
    /\ UNCHANGED <<audioVars, resetFound, dspVars, presets, destData, strip, mixer, twin>>

\* variant: the runtime articulation follows the loaded block
deserialise_SetsRuntime(src) ==
    /\ sectionParams' = deserialiseFromValueTree(sectionParams, src)
    /\ sectionRuntime' =
          [sec \in Sections |->
              [sectionRuntime[sec] EXCEPT
                  !.currentArticulationIndex = sectionParams'[sec].articulationIndex]]
    /\ saved' = [saved EXCEPT !.last = [op |-> "deserialise",
                                        prior |-> sectionParams, src |-> src,
                                        name |-> ""]]
    /\ UNCHANGED <<midi, lastIn, noteOnLog, sent, host>>
    /\ UNCHANGED <<audioVars, resetFound, dspVars, presets, tree, destData, strip, mixer, twin>>

\* deserialiseFromValueTree as an operation of the engine
deserialise(src) ==
    /\ sectionParams' = deserialiseFromValueTree(sectionParams, src)
    /\ saved' = [saved EXCEPT !.last = [op |-> "deserialise",
                                        prior |-> sectionParams, src |-> src,
                                        name |-> ""]]
    /\ UNCHANGED <<sectionRuntime, midi, lastIn, noteOnLog, sent, host>>
    /\ UNCHANGED <<audioVars, resetFound, dspVars, presets, tree, destData, strip, mixer, twin>>

\* the trees a caller may hand to deserialise: the one it was given, or that
\* tree with one section's record or one property of one record missing
withoutChild(t, id) ==
    [t EXCEPT !.children = SelectSeq(t.children, LAMBDA c : c.type # id)]
withoutProperty(t, id, field) ==
    [t EXCEPT !.children =
        [i \in DOMAIN t.children |->
            IF t.children[i].type = id
            THEN [t.children[i] EXCEPT
                     !.props = [k \in (DOMAIN t.children[i].props) \ {field} |->
                                   t.children[i].props[k]]]
            ELSE t.children[i]]]

EditedTrees(t) ==
    {t} \cup {withoutChild(t, sectionName(sec)) : sec \in host.targets}
        \cup {withoutProperty(t, sectionName(sec), f) : sec \in host.targets,
                                                         f \in host.fields}

Deserialise == \E src \in EditedTrees(tree) : deserialise(src)

\* OrchestraSynthAudioProcessor::getStateInformation
GetStateInformation ==
    /\ destData' = stateInformation(sectionParams)
    /\ saved' = [saved EXCEPT !.tree = sectionParams]
    /\ UNCHANGED <<sectionParams, sectionRuntime, midi, lastIn, noteOnLog, sent, host>>
    /\ UNCHANGED <<audioVars, resetFound, dspVars, presets, tree, strip, mixer, twin>>

\* OrchestraSynthAudioProcessor::setStateInformation
setStateInformation(data) ==
    /\ sectionParams' = restoredFrom(sectionParams, data)
    /\ saved' = [saved EXCEPT !.last = [op |-> "setStateInformation",
                                        prior |-> sectionParams,
                                        src |-> readFromStream(data),
                                        name |-> ""]]
    /\ UNCHANGED <<sectionRuntime, midi, lastIn, noteOnLog, sent, host>>
    /\ UNCHANGED <<audioVars, resetFound, dspVars, presets, tree, destData, strip, mixer, twin>>

\* no strip is inside sliderValueChanged
StripIdle == [at |-> "idle", section |-> Strings, field |-> "", p |-> DefaultSectionParams]

\* SectionStripComponent::sliderValueChanged up to its last statement: the
\* section's block is copied into the local p and the moved slider's field
\* is set in the copy
sliderRead(section, field, value) ==
    /\ strip.at = "idle"
    /\ strip' = [at |-> "write", section |-> section, field |-> field,
                 p |-> [sectionParams[section] EXCEPT ![field] = value]]
    /\ UNCHANGED <<sectionParams, sectionRuntime, midi, lastIn, noteOnLog, sent, host>>
    /\ UNCHANGED <<audioVars, resetFound, dspVars, presets, tree, destData, mixer, twin, saved>>

SliderRead ==
    \E section \in host.targets : \E move \in host.moves :
        sliderRead(section, move.field, move.value)

\* its last statement: engine.setSectionParams (section, p)
SliderWrite ==
    /\ strip.at = "write"
    /\ sectionParams' = [sectionParams EXCEPT ![strip.section] = strip.p]
    /\ strip' = StripIdle
    /\ saved' = [saved EXCEPT !.last = NoLoad]
    /\ UNCHANGED <<sectionRuntime, midi, lastIn, noteOnLog, sent, host>>
    /\ UNCHANGED <<audioVars, resetFound, dspVars, presets, tree, destData, mixer, twin>>

\* the keyboard's handlers leave the engine as it is: the messages they
\* post are kept in mixer
mixerFrame ==
    UNCHANGED <<sectionParams, sectionRuntime, midi, lastIn, noteOnLog, sent, host,
                audioVars, resetFound, dspVars, storeVarsButMixer>>

handling(m) == [m EXCEPT !.posted = EmptyBag]

\* the mixer and its sentinel both hand their key events to the mixer
hasFocus(m) == m.alive /\ m.focus \in {"mixer", "sentinel"}

\* a typing key goes down: keyStateChanged, then keyPressed
PressKey ==
    \E keyCode \in host.keys :
        /\ mixer.alive
        /\ keyCode \notin mixer.keysDown
        /\ mixer' = LET m == [handling(mixer) EXCEPT !.keysDown = @ \cup {keyCode}]
                    IN IF hasFocus(mixer)
                       THEN handleNoteKey(refreshReleasedKeys(m), keyCode)
                       ELSE m
        /\ mixerFrame

\* a key that is held repeats: keyPressed again
RepeatKey ==
    \E keyCode \in mixer.keysDown :
        /\ hasFocus(mixer)
        /\ mixer' = handleNoteKey(handling(mixer), keyCode)
        /\ mixerFrame

\* a typing key goes up: keyStateChanged
ReleaseKey ==
    \E keyCode \in mixer.keysDown :
        /\ mixer.alive
        /\ mixer' = LET m == [handling(mixer) EXCEPT !.keysDown = @ \ {keyCode}]
                    IN IF hasFocus(mixer) THEN refreshReleasedKeys(m) ELSE m
        /\ mixerFrame

\* 'x' and 'c'
OctaveKey ==
    \E step \in {-octaveStep, octaveStep} :
        /\ hasFocus(mixer)
        /\ mixer' = handleOctaveKey(handling(mixer), step)
        /\ mixerFrame

\* 'v' and 'b'
MultitimbralKey ==
    \E step \in {-1, 1} :
        /\ hasFocus(mixer)
        /\ mixer' = handleMultitimbralKey(handling(mixer), step)
        /\ mixerFrame

\* MixerComponent::focusLost: the mixer held the focus and the sentinel or
\* something outside takes it
FocusLost ==
    \E holder \in {"sentinel", "none"} :
        /\ mixer.alive
        /\ mixer.focus = "mixer"
        /\ mixer' = [allNotesOffFromKeyboard(handling(mixer)) EXCEPT !.focus = holder]
        /\ mixerFrame

\* the focus moves while the mixer does not hold it: the sentinel grabs it
\* (parentHierarchyChanged, resized, its mouseDown), a click gives it to the
\* mixer, or the window loses it.  KeyboardFocusSentinel overrides no
\* focusLost and the mixer no focusOfChildComponentChanged: no handler runs
FocusMoved ==
    \E holder \in {"mixer", "sentinel", "none"} :
        /\ mixer.alive
        /\ mixer.focus # "mixer"
        /\ holder # mixer.focus
        /\ mixer' = [handling(mixer) EXCEPT !.focus = holder]
        /\ mixerFrame

\* MixerComponent::~MixerComponent
DestroyMixer ==
    /\ mixer.alive
    /\ mixer' = [allNotesOffFromKeyboard(handling(mixer)) EXCEPT !.alive = FALSE,
                                                                 !.focus = "none"]
    /\ mixerFrame

\* ------------------------------------------------------------------------
\* Two engines side by side.  An engine is the record of what the calls
\* below read and write: its parameter blocks, its section runtimes, the
\* PresetManager it was constructed on and the caller's buffer as the last
\* processBlock left it; heldIn is what that buffer held on entry.  Each
\* call is the operation of the same name applied to the record.
\* ------------------------------------------------------------------------
NewEngine ==
    [sectionParams |-> ConstructedParams, sectionRuntime |-> ConstructedRuntime,
     presets |-> [n \in PresetNames |-> varVoid],
     buffer |-> Silence, heldIn |-> Silence]

NewTwin == [a |-> NewEngine, b |-> NewEngine]

enginePrepare(e) ==
    [e EXCEPT !.sectionRuntime =
        [sec \in Sections |->
            [e.sectionRuntime[sec] EXCEPT
                !.voices = [v \in 1 .. e.sectionParams[sec].maxVoices |-> NewVoice],
                !.numSounds = 1]]]

engineAfterBlock(e, r, held) ==
    [e EXCEPT !.sectionRuntime = r.runtime,
              !.buffer = processBlockBuffer(held, r.out),
              !.heldIn = held]

\* variant: a block is rendered only into a buffer that is silent on entry
engineProcessBlock_NeedsSilence(e, stream, numSamples, held) ==
    IF held = Silence
    THEN engineAfterBlock(e, processBlockResult(e.sectionRuntime, e.sectionParams,
                                                stream, numSamples), held)
    ELSE [e EXCEPT !.buffer = held, !.heldIn = held]

engineProcessBlock(e, stream, numSamples, held) ==
    engineAfterBlock(e, processBlockResult(e.sectionRuntime, e.sectionParams,
                                           stream, numSamples), held)

engineSetSectionParams(e, index, params) ==
    [e EXCEPT !.sectionParams[index] = params]

\* processBlock while setSectionParams (index, params) is under way on the
\* control thread: the voices read gain and pan as given, the block is
\* stored whole by the time both calls have returned
engineProcessBlockDuringSet(e, stream, numSamples, held, index, params, gain, pan) ==
    engineSetSectionParams(
        engineAfterBlock(e, processBlockResult(e.sectionRuntime,
                                               [e.sectionParams EXCEPT ![index].gain = gain,
                                                                       ![index].pan = pan],
                                               stream, numSamples), held),
        index, params)

engineSavePreset(e, name) ==
    [e EXCEPT !.presets = presetManagerSavePreset(e.presets, name, e.sectionParams)]

engineLoadPreset(e, name) ==
    [e EXCEPT !.sectionParams = presetManagerLoadPreset(e.presets, name, e.sectionParams)]

\* the calls on the pair leave the single engine as it is
twinFrame ==
    UNCHANGED <<sectionParams, sectionRuntime, midi, lastIn, noteOnLog, host,
                audioVars, resetFound, dspVars, presets, tree, destData, strip,
                mixer, saved>>

TwinPrepare ==
    /\ twin' = [a |-> enginePrepare(twin.a), b |-> enginePrepare(twin.b)]
    /\ UNCHANGED sent
    /\ twinFrame

\* the same stream and block length for both; what each caller's buffer
\* holds on entry is its own
TwinProcessBlock ==
    \E numSamples \in BlockSizes : \E stream \in BlockStreams \cup {<<>>} :
        \E heldA \in host.held : \E heldB \in host.held :
            /\ sent + Len(stream) <= host.budget
            /\ sent' = sent + Len(stream)
            /\ twin' = [a |-> engineProcessBlock(twin.a, stream, numSamples, heldA),
                        b |-> engineProcessBlock(twin.b, stream, numSamples, heldB)]
            /\ twinFrame

TwinSetSectionParams ==
    \E index \in host.targets : \E params \in host.blocks :
        /\ twin' = [a |-> engineSetSectionParams(twin.a, index, params),
                    b |-> engineSetSectionParams(twin.b, index, params)]
        /\ UNCHANGED sent
        /\ twinFrame

\* the two calls overlap on both engines; what each engine's voices read of
\* the gain and of the pan, before or after the write, is its own
TwinProcessBlockDuringSet ==
    \E numSamples \in BlockSizes : \E stream \in {addEvent(<<>>, ev) : ev \in host.events} :
        \E index \in host.targets : \E params \in host.blocks :
            \E heldA \in host.held : \E heldB \in host.held :
                \E gainA \in {twin.a.sectionParams[index].gain, params.gain} :
                \E panA \in {twin.a.sectionParams[index].pan, params.pan} :
                \E gainB \in {twin.b.sectionParams[index].gain, params.gain} :
                \E panB \in {twin.b.sectionParams[index].pan, params.pan} :
                    /\ params # twin.a.sectionParams[index]
                    /\ sent + Len(stream) <= host.budget
                    /\ sent' = sent + Len(stream)
                    /\ twin' = [a |-> engineProcessBlockDuringSet(twin.a, stream, numSamples,
                                           heldA, index, params, gainA, panA),
                                b |-> engineProcessBlockDuringSet(twin.b, stream, numSamples,
                                           heldB, index, params, gainB, panB)]
                    /\ twinFrame

TwinSavePreset ==
    \E name \in host.names :
        /\ twin' = [a |-> engineSavePreset(twin.a, name),
                    b |-> engineSavePreset(twin.b, name)]
        /\ UNCHANGED sent
        /\ twinFrame

TwinLoadPreset ==
    \E name \in host.names :
        /\ twin' = [a |-> engineLoadPreset(twin.a, name),
                    b |-> engineLoadPreset(twin.b, name)]
        /\ UNCHANGED sent
        /\ twinFrame

\* OrchestraSynthEngine::savePreset / loadPreset
savePreset(name) ==
    /\ presets' = presetManagerSavePreset(presets, name, sectionParams)
    /\ saved' = [saved EXCEPT !.presets[name] = sectionParams]
    /\ UNCHANGED <<sectionParams, sectionRuntime, midi, lastIn, noteOnLog, sent, host>>
    /\ UNCHANGED <<audioVars, resetFound, dspVars, tree, destData, strip, mixer, twin>>

SavePreset == \E name \in host.names : savePreset(name)

\* variant: the pools are rebuilt to the loaded capacities
loadPreset_Rebuild(name) ==
    /\ sectionParams' = presetManagerLoadPreset(presets, name, sectionParams)
    /\ sectionRuntime' =
          [sec \in Sections |->
              [sectionRuntime[sec] EXCEPT
                  !.voices = [v \in 1 .. sectionParams'[sec].maxVoices |-> NewVoice]]]
    /\ saved' = [saved EXCEPT !.last = [op |-> "loadPreset",
                                        prior |-> sectionParams,
                                        src |-> InvalidTree, name |-> name]]
    /\ UNCHANGED <<midi, lastIn, noteOnLog, sent, host>>
    /\ UNCHANGED <<audioVars, resetFound, dspVars, presets, tree, destData, strip, mixer, twin>>

loadPreset(name) ==
    /\ sectionParams' = presetManagerLoadPreset(presets, name, sectionParams)
    /\ saved' = [saved EXCEPT !.last = [op |-> "loadPreset",
                                        prior |-> sectionParams,
                                        src |-> InvalidTree, name |-> name]]
    /\ UNCHANGED <<sectionRuntime, midi, lastIn, noteOnLog, sent, host>>
    /\ UNCHANGED <<audioVars, resetFound, dspVars, presets, tree, destData, strip, mixer, twin>>

LoadPreset == \E name \in host.names : loadPreset(name)

\* the engine is destroyed and a new one constructed on the same
\* PresetManager; the caller keeps the tree it holds
Construct ==
    /\ sectionParams' = ConstructedParams
    /\ sectionRuntime' = ConstructedRuntime
    /\ convolutionReverb' = NewConvolutionEngine
    /\ oversampler' = NewOversampler
    /\ lastIn' = <<>>
    /\ noteOnLog' = [sec \in Sections |-> <<>>]
    /\ saved' = [saved EXCEPT !.last = NoLoad]
    /\ resetFound' = NoReset
    /\ UNCHANGED <<midi, sent, host, audioVars, presets, tree, destData, strip, mixer, twin>>

\* the components driven on their own: every other part of the engine is
\* left as it is
stageFrame ==
    UNCHANGED <<sectionParams, sectionRuntime, midi, lastIn, noteOnLog, sent, host,
                resetFound, storeVars>>

\* history of a component call: which, how it ended, and the file the
\* convolution engine had last been given
stageCall(name, status) ==
    [stage |-> name, status |-> status, lastFile |-> convolutionReverb.lastFile]

ConvolutionPrepare ==
    /\ convolutionReverb' = convolutionPrepare(convolutionReverb)
    /\ UNCHANGED <<oversampler, audioVars>>
    /\ stageFrame

OversamplerPrepare ==
    /\ oversampler' = oversamplerPrepare(oversampler)
    /\ UNCHANGED <<convolutionReverb, audioVars>>
    /\ stageFrame

SetEnabled ==
    /\ \E shouldEnable \in BOOLEAN :
          /\ shouldEnable # oversampler.enabled
          /\ oversampler' = setEnabled(oversampler, shouldEnable)
    /\ UNCHANGED <<convolutionReverb, audioVars>>
    /\ stageFrame

LoadImpulseResponse ==
    /\ \E file \in host.files :
          convolutionReverb' = loadImpulseResponse(convolutionReverb, file)
    /\ UNCHANGED <<oversampler, audioVars>>
    /\ stageFrame

convolutionCall(b) ==
    /\ buffer' = convolutionProcess(convolutionReverb, b).buffer
    /\ stages' = <<stageCall("ConvolutionEngine::process",
                             convolutionProcess(convolutionReverb, b).status)>>
    /\ heldIn' = b
    /\ UNCHANGED dspVars
    /\ stageFrame

ConvolutionProcess == \E b \in host.held : convolutionCall(b)

oversamplerCall(b) ==
    /\ buffer' = oversamplerProcess(oversampler, b).ret.buffer
    /\ stages' = <<stageCall("Oversampler::process",
                             oversamplerProcess(oversampler, b).ret.status)>>
    /\ heldIn' = b
    /\ oversampler' = oversamplerProcess(oversampler, b).os
    /\ UNCHANGED convolutionReverb
    /\ stageFrame

OversamplerProcess == \E b \in host.held : oversamplerCall(b)

\* ------------------------------------------------------------------------
\* Specifications
\* ------------------------------------------------------------------------
Channels == 0 .. (numSections + 1)

\* what the caller's buffer may hold on entry: zeros, or something left over
Leftover == [left |-> 500, right |-> 250]
BufferContents == {Silence, Leftover}

\* a sounding note-on on every channel; keyswitch note-ons, note-offs and
\* messages that are neither (their note field is not used) on valid and
\* invalid channels; later positions on the first channel
RouteEvents ==
    [kind : {"on"}, ch : Channels, note : {60}, pos : {0}]
    \cup [kind : {"on"}, ch : {0, 1, 5, 6}, note : {24}, pos : {0}]
    \cup [kind : {"on"}, ch : {5}, note : {26}, pos : {0}]
    \cup [kind : {"off"}, ch : {1, 2, 6}, note : {60}, pos : {0}]
    \cup [kind : {"off"}, ch : {1, 5}, note : {24}, pos : {0}]
    \cup [kind : {"other"}, ch : {0, 1, 3, 4}, note : {0}, pos : {0}]
    \cup [kind : {"on"}, ch : {1}, note : {24, 60}, pos : Positions]
    \cup [kind : {"off"}, ch : {1}, note : {24}, pos : Positions]

\* one section: two keyswitches and notes on both sides of their range
VoiceEvents ==
    [kind : {"on"}, ch : {1}, note : {23, 24, 25, 27, 60}, pos : {0}]
    \cup [kind : {"off"}, ch : {1}, note : {27, 60}, pos : {0}]

\* one section: four sounding notes, one of which may be released
StealEvents ==
    [kind : {"on"}, ch : {1}, note : {23, 27, 60, 61}, pos : {0}]
    \cup [kind : {"off"}, ch : {1}, note : {60}, pos : {0}]

\* the members the constructor leaves at their defaults, the caller's
\* buffer before any call, and an empty preset store
InitShared ==
    /\ buffer = Silence
    /\ stages = <<>>
    /\ heldIn = Silence
    /\ resetFound = NoReset
    /\ convolutionReverb = NewConvolutionEngine
    /\ oversampler = NewOversampler
    /\ presets = [n \in PresetNames |-> varVoid]
    /\ tree = InvalidTree
    /\ destData = emptyBlock
    /\ strip = StripIdle
    /\ mixer = NewMixer
    /\ twin = NewTwin
    /\ saved = [tree |-> NoBlocks, presets |-> [n \in PresetNames |-> NoBlocks],
                last |-> NoLoad]

InitEngine ==
    /\ sectionParams = ConstructedParams
    /\ sectionRuntime = ConstructedRuntime
    /\ midi = <<>>
    /\ lastIn = <<>>
    /\ noteOnLog = [sec \in Sections |-> <<>>]
    /\ sent = 0
    /\ InitShared

Init == InitEngine /\ host = [events |-> RouteEvents, budget |-> MaxRouteSent, held |-> BufferContents]

InitVoices == InitEngine /\ host = [events |-> VoiceEvents, budget |-> MaxSent, held |-> {Leftover}]

InitSteal ==
    /\ \E n \in (StealVoices - 1) .. StealVoices :
          sectionParams = [ConstructedParams EXCEPT ![Strings].maxVoices = n]
    /\ sectionRuntime = ConstructedRuntime
    /\ midi = <<>>
    /\ lastIn = <<>>
    /\ noteOnLog = [sec \in Sections |-> <<>>]
    /\ sent = 0
    /\ InitShared
    /\ host = [events |-> StealEvents, budget |-> MaxStealSent,
               held |-> {Leftover}]

Next == prepare \/ ProcessBlock \/ HostAddEvent

Spec == Init /\ [][Next]_vars

SpecVoices == InitVoices /\ [][Next]_vars

SpecSteal == InitSteal /\ [][Next]_vars

\* one section: a note and two keyswitches, each early or late in its block
OrderEvents ==
    [kind : {"on"}, ch : {1}, note : {25, 26, 60}, pos : Positions]

InitOrder == InitEngine /\ host = [events |-> OrderEvents, budget |-> MaxOrderSent, held |-> {Leftover}]

SpecOrder == InitOrder /\ [][Next]_vars

\* one section with a pool of the smaller size: notes started, released and
\* started again, while the audio thread keeps rendering blocks
ReleaseEvents ==
    [kind : {"on"}, ch : {Brass + 1}, note : {60, 62}, pos : {0}]
    \cup [kind : {"off"}, ch : {Brass + 1}, note : {60}, pos : {0}]

InitRelease ==
    InitEngine /\ host = [events |-> ReleaseEvents, budget |-> MaxReleaseSent,
                          held |-> {Leftover}]

NextRelease ==
    \/ prepare
    \/ ProcessBlock
    \/ PluginProcessBlock

\* the audio thread calls processBlock at a fixed cadence for as long as the
\* device runs, with or without events
SpecRelease == InitRelease /\ [][NextRelease]_vars /\ WF_vars(ProcessBlock)

\* the control side: the blocks a strip may write, the sections it
\* addresses and the properties a tree may lack
Fields == {"maxVoices", "gain", "pan", "cutoff", "resonance", "attackMs",
           "releaseMs", "reverbSend", "oversampleFactor", "articulationIndex"}

SoftLeft ==
    [gain |-> 500, pan |-> -1000, cutoff |-> 8000, resonance |-> 900,
     attackMs |-> 10, releaseMs |-> 100, reverbSend |-> 0,
     oversampleFactor |-> 4, maxVoices |-> OtherVoices, articulationIndex |-> 2]
LoudRight ==
    [gain |-> 1000, pan |-> 1000, cutoff |-> 4000, resonance |-> 300,
     attackMs |-> 1, releaseMs |-> 400, reverbSend |-> 1000,
     oversampleFactor |-> 1, maxVoices |-> StringsVoices + 1, articulationIndex |-> 1]

\* trees written and read back, whole or with a record or a property
\* (a float one, an int one) missing; no audio
InitTree ==
    /\ InitEngine
    /\ host = [events |-> {}, budget |-> 0, held |-> {}, targets |-> {Strings, numSections - 1},
               blocks |-> {SoftLeft}, names |-> {},
               fields |-> {"pan", "maxVoices"}]

NextTree ==
    \/ SetSectionParams
    \/ Serialise
    \/ Deserialise
    \/ Construct

SpecTree == InitTree /\ [][NextTree]_vars

\* blocks that decode to no valid tree: no bytes at all, and bytes that
\* begin with an empty type; blocks that decode to a tree without a
\* "sections" child: a bare root, and a tree that holds a section's record
\* directly
UndecodableBlocks ==
    {emptyBlock, <<stringItem(""), intItem(1), stringItem("gain")>>}
NoSectionsBlocks ==
    {writeToStream(ValueTree("orchestraSynthState")),
     writeToStream(addChild(ValueTree("orchestraSynthState"),
                            serialiseSection(LoudRight, "strings")))}

SetStateInformation ==
    \E data \in UndecodableBlocks \cup NoSectionsBlocks \cup {destData} :
        setStateInformation(data)

\* a strip's sliders moved on the message thread while the host, on a
\* thread of its own, saves and restores the plugin's state
StripMoves == {[field |-> "gain", value |-> 250], [field |-> "pan", value |-> 500]}

InitStrip ==
    /\ InitEngine
    /\ host = [events |-> {}, budget |-> 0, held |-> {}, targets |-> {Strings},
               blocks |-> {}, names |-> {}, fields |-> {},
               moves |-> StripMoves]

NextStrip ==
    \/ SliderRead
    \/ SliderWrite
    \/ GetStateInformation
    \/ SetStateInformation

SpecStrip == InitStrip /\ [][NextStrip]_vars

\* the typing keyboard: the lowest and the highest key played, released,
\* shifted by octaves and layered, with the focus going and coming
TypedKeys == {"a", ";"}

InitKeyboard ==
    /\ InitEngine
    /\ host = [events |-> {}, budget |-> 0, held |-> {}, targets |-> {},
               blocks |-> {}, names |-> {}, fields |-> {}, keys |-> TypedKeys]

NextKeyboard ==
    \/ PressKey
    \/ RepeatKey
    \/ ReleaseKey
    \/ OctaveKey
    \/ MultitimbralKey
    \/ FocusLost
    \/ FocusMoved
    \/ DestroyMixer

SpecKeyboard == InitKeyboard /\ [][NextKeyboard]_vars

\* two engines given the same calls: a note, a keyswitch and a note-off on
\* the Strings channel, one parameter block, one preset name; each caller's
\* buffer is silent or holds a leftover on entry
MaxTwinSent == 2
TwinEvents ==
    [kind : {"on"}, ch : {1}, note : {25, 60}, pos : {0}]
    \cup [kind : {"off"}, ch : {1}, note : {60}, pos : {0}]

InitTwin ==
    /\ InitEngine
    /\ host = [events |-> TwinEvents, budget |-> MaxTwinSent, held |-> BufferContents,
               targets |-> {Strings}, blocks |-> {LoudRight},
               names |-> {"a"}, fields |-> {}]

NextTwin ==
    \/ TwinPrepare
    \/ TwinProcessBlock
    \/ TwinProcessBlockDuringSet
    \/ TwinSetSectionParams
    \/ TwinSavePreset
    \/ TwinLoadPreset

SpecTwin == InitTwin /\ [][NextTwin]_vars

\* the host saving and restoring the plugin's state; no audio
InitState ==
    /\ InitEngine
    /\ host = [events |-> {}, budget |-> 0, held |-> {}, targets |-> {Strings, numSections - 1},
               blocks |-> {SoftLeft, LoudRight}, names |-> {}, fields |-> {}]

NextState ==
    \/ SetSectionParams
    \/ GetStateInformation
    \/ SetStateInformation
    \/ Construct

SpecState == InitState /\ [][NextState]_vars

\* presets saved and loaded under two names; no audio
InitPresets ==
    /\ InitEngine
    /\ host = [events |-> {}, budget |-> 0, held |-> {}, targets |-> {Strings, numSections - 1},
               blocks |-> {SoftLeft, LoudRight}, names |-> PresetNames,
               fields |-> {}]

NextPresets ==
    \/ SetSectionParams
    \/ SavePreset
    \/ LoadPreset

SpecPresets == InitPresets /\ [][NextPresets]_vars

\* the store and the control side at work on a playing engine
LiveEvents ==
    [kind : {"on"}, ch : {1}, note : {25, 60}, pos : {0}]
    \cup [kind : {"off"}, ch : {1}, note : {60}, pos : {0}]

InitLive ==
    /\ InitEngine
    /\ host = [events |-> LiveEvents, budget |-> MaxLiveSent, held |-> {Leftover},
               targets |-> {Strings},
               blocks |-> {[SoftLeft EXCEPT !.maxVoices = StringsVoices]},
               names |-> {"a"}, fields |-> {}]

NextLive ==
    \/ prepare
    \/ ProcessBlock
    \/ HostAddEvent
    \/ reset
    \/ SetSectionParams
    \/ Serialise
    \/ Deserialise
    \/ SavePreset
    \/ LoadPreset

SpecLive == InitLive /\ [][NextLive]_vars

\* capacities changed from the control side and by presets, around prepare
PoolEvents == [kind : {"on"}, ch : {1}, note : {60, 62}, pos : {0}]

InitPools ==
    /\ InitEngine
    /\ host = [events |-> PoolEvents, budget |-> MaxPoolSent, held |-> {Leftover},
               targets |-> {Strings},
               blocks |-> {SoftLeft, LoudRight}, names |-> {"a"}, fields |-> {}]

NextPools ==
    \/ prepare
    \/ ProcessBlock
    \/ HostAddEvent
    \/ SetSectionParams
    \/ SavePreset
    \/ LoadPreset
    \/ Construct

SpecPools == InitPools /\ [][NextPools]_vars

\* stored articulation indices beyond both ends of the table, set from the
\* control side and brought back by a preset; keyswitches at the upper end
\* of their range and the first note above it
RangeEvents == [kind : {"on"}, ch : {1}, note : {26, 27, 60}, pos : {0}]
RangeBlocks ==
    {[SoftLeft EXCEPT !.maxVoices = StringsVoices, !.articulationIndex = 7],
     [LoudRight EXCEPT !.maxVoices = StringsVoices, !.articulationIndex = -1]}

InitRange ==
    /\ InitEngine
    /\ host = [events |-> RangeEvents, budget |-> MaxRangeSent, held |-> {Leftover},
               targets |-> {Strings},
               blocks |-> RangeBlocks, names |-> {"a"}, fields |-> {}]

SpecRange == InitRange /\ [][NextPools]_vars

\* the two stages driven as components: buses of no samples and of some,
\* silent and not; files that are missing, that no reader decodes, and a
\* stereo one that decodes
StageBuses ==
    {[left |-> 0, right |-> 0, numSamples |-> 0, convolved |-> FALSE, filtered |-> FALSE],
     [left |-> 0, right |-> 0, numSamples |-> 4096, convolved |-> FALSE, filtered |-> FALSE],
     [left |-> 500, right |-> 250, numSamples |-> 4096, convolved |-> FALSE,
      filtered |-> FALSE]}

IrFiles ==
    {[exists |-> FALSE, decodes |-> FALSE, channels |-> 0, length |-> 0],
     [exists |-> TRUE, decodes |-> FALSE, channels |-> 0, length |-> 0],
     [exists |-> TRUE, decodes |-> TRUE, channels |-> 2, length |-> 3]}

InitStages ==
    /\ InitEngine
    /\ host = [events |-> {}, budget |-> 0, held |-> StageBuses, files |-> IrFiles,
               targets |-> {}, blocks |-> {}, names |-> {}, fields |-> {}]

NextStages ==
    \/ ConvolutionPrepare
    \/ OversamplerPrepare
    \/ SetEnabled
    \/ LoadImpulseResponse
    \/ ConvolutionProcess
    \/ OversamplerProcess

SpecStages == InitStages /\ [][NextStages]_vars

\* the control thread writing a block while the audio thread renders
InitRace ==
    /\ InitEngine
    /\ host = [events |-> LiveEvents, budget |-> MaxLiveSent, held |-> {Leftover},
               targets |-> {Strings},
               blocks |-> {[SoftLeft EXCEPT !.maxVoices = StringsVoices],
                           [LoudRight EXCEPT !.maxVoices = StringsVoices]},
               names |-> {}, fields |-> {}]

NextRace ==
    \/ prepare
    \/ ProcessBlock
    \/ HostAddEvent
    \/ ProcessBlockDuringSet

SpecRace == InitRace /\ [][NextRace]_vars

\* ------------------------------------------------------------------------
\* Vocabulary of the properties
\* ------------------------------------------------------------------------
KeyswitchNotes == {24, 25, 26}
ValidChannels == 1 .. 5

IsKeyswitchNoteOn(e) == e.kind = "on" /\ e.note \in KeyswitchNotes

Range(seq) == {seq[i] : i \in DOMAIN seq}
Count(seq, e) == Cardinality({i \in DOMAIN seq : seq[i] = e})
Last(seq) == seq[Len(seq)]

OnChannel(stream, c) == SelectSeq(stream, LAMBDA e : e.ch = c)
KeyswitchesOn(stream, c) == SelectSeq(stream, LAMBDA e : e.ch = c /\ IsKeyswitchNoteOn(e))
ForwardedOn(stream, c) == SelectSeq(stream, LAMBDA e : e.ch = c /\ ~IsKeyswitchNoteOn(e))
ValidOnly(stream) == SelectSeq(stream, LAMBDA e : e.ch \in ValidChannels)

Queue(sec) == sectionRuntime[sec].midiBuffer
SoundingNotes(voices) ==
    {voices[i].currentlyPlayingNote : i \in ActiveVoices(voices)}
NumActive(voices) == Cardinality(ActiveVoices(voices))
Prepared == \A sec \in Sections : sectionRuntime[sec].numSounds = 1

\* ------------------------------------------------------------------------
\* C2 (as stated): every event on channel 1..5 is placed in the queue of
\* section channel - 1, every event on another channel in no queue.
\* Refuted: a keyswitch note-on on a valid channel is queued nowhere.
C2_EveryValidEventQueued ==
    \A e \in Range(lastIn) : \A sec \in Sections :
        Count(Queue(sec), e) = IF e.ch = sec + 1 THEN Count(lastIn, e) ELSE 0

\* C2 (amended): every event on channel 1..5 that is not a keyswitch
\* note-on is placed in the queue of section channel - 1 and in no other
\* queue; an event on channel 0 or 6 and above is placed in no queue, and
\* the block leaves every section's queue, articulation index and voices
\* as the same block without the discarded events would.
C2_RoutingByChannel ==
    [][\A n \in BlockSizes : processBlock(n) =>
         /\ \A sec \in Sections :
               /\ \A e \in Range(midi) :
                     Count(sectionRuntime'[sec].midiBuffer, e) =
                        IF e.ch = sec + 1 /\ ~IsKeyswitchNoteOn(e)
                        THEN Count(midi, e) ELSE 0
               /\ Range(sectionRuntime'[sec].midiBuffer) \subseteq Range(midi)
         /\ sectionRuntime' =
               processBlockResult(sectionRuntime, sectionParams, ValidOnly(midi), n).runtime
      ]_vars

C2_Witness ==
    /\ \E i \in DOMAIN lastIn : lastIn[i].ch \notin ValidChannels
    /\ \E i \in DOMAIN lastIn : lastIn[i].ch = 5 /\ lastIn[i].kind = "on"
    /\ Len(Queue(4)) = 1
    /\ midi = <<>>

\* C3: a note-on for note 24, 25 or 26 on channel c in 1..5 sets the active
\* articulation index of section c - 1 to note - 24 (the last one of a
\* block prevails), is in no section's queue and starts no voice.
C3_KeyswitchConsumed ==
    \A sec \in Sections :
        /\ \A i \in DOMAIN Queue(sec) : ~IsKeyswitchNoteOn(Queue(sec)[i])
        /\ \A k \in DOMAIN noteOnLog[sec] : noteOnLog[sec][k].note \notin KeyswitchNotes
        /\ \A i \in VoiceIdx(sectionRuntime[sec].voices) :
              sectionRuntime[sec].voices[i].currentlyPlayingNote \notin KeyswitchNotes
        /\ KeyswitchesOn(lastIn, sec + 1) # <<>> =>
              sectionRuntime[sec].currentArticulationIndex =
                 Last(KeyswitchesOn(lastIn, sec + 1)).note - 24

C3_Witness ==
    /\ Prepared
    /\ \E i \in DOMAIN lastIn :
          lastIn[i].kind = "on" /\ lastIn[i].note = 26 /\ lastIn[i].ch = 5
    /\ sectionRuntime[4].currentArticulationIndex = 2
    /\ NumActive(sectionRuntime[4].voices) = 0

\* C8: on channels 1..5 every event that is not a note-on, a note-off for
\* note 24, 25 or 26 included, is forwarded unchanged to its section's
\* queue, and only keyswitch note-ons move an articulation index.
C8_NonNoteOnForwarded ==
    [][\A n \in BlockSizes : processBlock(n) =>
         \A sec \in Sections :
            /\ SelectSeq(sectionRuntime'[sec].midiBuffer, LAMBDA e : e.kind # "on")
                  = SelectSeq(midi, LAMBDA e : e.ch = sec + 1 /\ e.kind # "on")
            /\ sectionRuntime'[sec].currentArticulationIndex =
                  IF KeyswitchesOn(midi, sec + 1) # <<>>
                  THEN Last(KeyswitchesOn(midi, sec + 1)).note - 24
                  ELSE sectionRuntime[sec].currentArticulationIndex
      ]_vars

C8_Witness ==
    /\ \E i \in DOMAIN Queue(4) :
          Queue(4)[i].kind = "off" /\ Queue(4)[i].note = 24
    /\ \E i \in DOMAIN lastIn :
          lastIn[i].kind = "off" /\ lastIn[i].note = 24 /\ lastIn[i].ch = 5
    /\ sectionRuntime[4].currentArticulationIndex = 2

\* C9: after routing, each section's queue is in non-decreasing sample
\* position order and holds its events in the order the input had them.
C9_QueueOrder ==
    \A sec \in Sections :
        /\ \A i, j \in DOMAIN Queue(sec) : i < j => Queue(sec)[i].pos <= Queue(sec)[j].pos
        /\ Queue(sec) = ForwardedOn(lastIn, sec + 1)

C9_Witness ==
    \E sec \in Sections :
        /\ Len(Queue(sec)) = 2
        /\ Queue(sec)[1] # Queue(sec)[2]
        /\ Queue(sec)[1].pos = Queue(sec)[2].pos

\* C10: every processBlock call leaves the caller's MIDI stream empty.
C10_InputDrained ==
    [][\A n \in BlockSizes : processBlock(n) => midi' = <<>>]_vars

C10_Witness ==
    /\ midi = <<>>
    /\ \E i \in DOMAIN lastIn : lastIn[i].ch \notin ValidChannels
    /\ \E i \in DOMAIN lastIn : IsKeyswitchNoteOn(lastIn[i]) /\ lastIn[i].ch \in ValidChannels

\* ------------------------------------------------------------------------
\* C1: no section ever has more active voices than its voice capacity, and
\* a note-on for a note that is not sounding raises the number of active
\* voices by one up to the capacity and no further, so that capacity + 1
\* such note-ons in a row leave exactly capacity voices active.
C1_VoiceCapacity ==
    \A sec \in Sections :
        LET cap == sectionParams[sec].maxVoices
        IN /\ NumActive(sectionRuntime[sec].voices) <= cap
           /\ \A k \in DOMAIN noteOnLog[sec] :
                 LET en == noteOnLog[sec][k]
                 IN en.note \notin SoundingNotes(en.pre) =>
                       NumActive(en.post) =
                          IF NumActive(en.pre) < cap THEN NumActive(en.pre) + 1 ELSE cap

\* the note-on that follows capacity note-ons for other notes, all still held
C1_Witness ==
    \E k \in DOMAIN noteOnLog[Strings] :
        LET en == noteOnLog[Strings][k]
        IN /\ Len(en.pre) = sectionParams[Strings].maxVoices
           /\ Len(en.pre) >= 2
           /\ \A i \in VoiceIdx(en.pre) :
                 /\ isVoiceActive(en.pre[i])
                 /\ en.pre[i].keyDown
                 /\ en.pre[i].adsr.state # "release"
           /\ Cardinality(SoundingNotes(en.pre) \cup {en.note}) = Len(en.pre) + 1
           /\ NumActive(en.post) = sectionParams[Strings].maxVoices

\* ------------------------------------------------------------------------
\* the place in the stream of the k-th sounding note-on of channel c
IsSoundingOn(e, c) == e.ch = c /\ e.kind = "on" /\ ~IsKeyswitchNoteOn(e)
SoundingPlace(stream, c, k) ==
    CHOOSE i \in DOMAIN stream :
        /\ IsSoundingOn(stream[i], c)
        /\ Cardinality({j \in 1 .. i : IsSoundingOn(stream[j], c)}) = k

EnvelopeOf(v) == [attackMs |-> v.adsr.attack, decayMs |-> v.adsr.decay,
                  sustain |-> v.adsr.sustain, releaseMs |-> v.adsr.release]
EnvelopeOfPreset(idx) ==
    [attackMs |-> initialiseArticulations[idx].attackMs,
     decayMs |-> initialiseArticulations[idx].decayMs,
     sustain |-> initialiseArticulations[idx].sustain,
     releaseMs |-> initialiseArticulations[idx].releaseMs]

\* C4 (as stated): a sounding note-on starts its voice with the preset of
\* the keyswitch that most recently precedes it on its channel.
\* Refuted: a keyswitch that follows the note-on in the same block prevails.
C4_UsesPrecedingKeyswitch ==
    [][\A n \in BlockSizes : processBlock(n) =>
         \A sec \in Sections : \A k \in DOMAIN noteOnLog'[sec] :
            LET en     == noteOnLog'[sec][k]
                place  == SoundingPlace(midi, sec + 1, k)
                before == KeyswitchesOn(SubSeq(midi, 1, place - 1), sec + 1)
            IN /\ before # <<>> =>
                    EnvelopeOf(en.post[en.voice]) = EnvelopeOfPreset(Last(before).note - 24)
               /\ (before = <<>> /\ sectionRuntime[sec].currentArticulationIndex # 0) =>
                    EnvelopeOf(en.post[en.voice]) =
                       EnvelopeOfPreset(sectionRuntime[sec].currentArticulationIndex)
      ]_vars

\* C4 (amended): a sounding note-on starts its voice with the attack, decay,
\* sustain and release of the preset selected by the last keyswitch its own
\* block carries on its channel, wherever in the block that keyswitch is,
\* and when the block carries none, by the most recent earlier keyswitch.
C4_UsesBlockKeyswitch ==
    [][\A n \in BlockSizes : processBlock(n) =>
         \A sec \in Sections : \A k \in DOMAIN noteOnLog'[sec] :
            LET en == noteOnLog'[sec][k]
                ks == KeyswitchesOn(midi, sec + 1)
            IN EnvelopeOf(en.post[en.voice]) =
                  EnvelopeOfPreset(IF ks # <<>> THEN Last(ks).note - 24
                                   ELSE sectionRuntime[sec].currentArticulationIndex)
      ]_vars

\* a note-on in a block after the one that carried the keyswitch
C4_Witness ==
    /\ KeyswitchesOn(lastIn, 1) = <<>>
    /\ sectionRuntime[Strings].currentArticulationIndex = 1
    /\ \E k \in DOMAIN noteOnLog[Strings] :
          LET en == noteOnLog[Strings][k]
          IN /\ en.post[en.voice].adsr.attack = 2
             /\ en.post[en.voice].adsr.release = 80

C7_SectionIsolation ==
    [][\A n \in BlockSizes : processBlock(n) =>
         \A sec \in Sections :
            LET own == processBlockResult(sectionRuntime, sectionParams,
                                          OnChannel(midi, sec + 1), n)
            IN /\ sectionRuntime'[sec] = own.runtime[sec]
               /\ noteOnLog'[sec] = own.log[sec]
      ]_vars

\* a note-on on channel 2 while a Strings voice sounds
C7_Witness ==
    /\ \E i \in DOMAIN lastIn : lastIn[i].ch = 2 /\ lastIn[i].kind = "on" /\ lastIn[i].note = 60
    /\ \A i \in DOMAIN lastIn : lastIn[i].ch # 1
    /\ NumActive(sectionRuntime[0].voices) = 1
    /\ NumActive(sectionRuntime[1].voices) = 1
    /\ noteOnLog[0] = <<>>

\* ------------------------------------------------------------------------
\* a note-on that found no free voice
FoundPoolFull(en) ==
    /\ en.voice # 0
    /\ \A i \in VoiceIdx(en.pre) : isVoiceActive(en.pre[i])

\* C6 (as stated): the voice reassigned when no voice is free is the active
\* voice with the lowest envelope level and, among voices of equal level,
\* the one that has been active longest.
\* Refuted: a voice at a higher level is taken while a quieter one sounds.
C6_StealsQuietest ==
    \A sec \in Sections : \A k \in DOMAIN noteOnLog[sec] :
        LET en == noteOnLog[sec][k]
        IN FoundPoolFull(en) =>
              \A j \in VoiceIdx(en.pre) :
                 \/ en.pre[en.voice].adsr.envelopeVal < en.pre[j].adsr.envelopeVal
                 \/ /\ en.pre[en.voice].adsr.envelopeVal = en.pre[j].adsr.envelopeVal
                    /\ en.pre[en.voice].noteOnTime <= en.pre[j].noteOnTime

\* C6 (amended): envelope level plays no part.  The voice reassigned when
\* no voice is free is the longest-active voice already playing the new
\* note, if there is one; otherwise the longest-active voice whose key has
\* been released; otherwise the longest-active voice that plays neither the
\* lowest nor the highest held note; and when only those two are left, the
\* one playing the highest note (the lowest when a single note is held).
C6_StealsOldestUnprotected ==
    \A sec \in Sections : \A k \in DOMAIN noteOnLog[sec] :
        LET en       == noteOnLog[sec][k]
            all      == VoiceIdx(en.pre)
            v        == en.voice
            note(i)  == en.pre[i].currentlyPlayingNote
            held     == {i \in all : en.pre[i].keyDown}
            released == all \ held
            same     == {i \in all : note(i) = en.note}
            IsLow(i) == /\ i \in held
                        /\ \A j \in held : note(i) < note(j) \/ (note(i) = note(j) /\ i <= j)
            IsTop(i) == /\ i \in held
                        /\ ~IsLow(i)
                        /\ \A j \in held : note(i) > note(j) \/ (note(i) = note(j) /\ i <= j)
            middle   == {i \in all : ~IsLow(i) /\ ~IsTop(i)}
            OldestOf(S) == v \in S /\ \A j \in S : en.pre[v].noteOnTime <= en.pre[j].noteOnTime
        IN FoundPoolFull(en) =>
              /\ en.post[v].currentlyPlayingNote = en.note
              /\ \A j \in all \ {v} :
                    en.post[j].currentlyPlayingNote = en.pre[j].currentlyPlayingNote
              /\ IF same # {} THEN OldestOf(same)
                 ELSE IF released # {} THEN OldestOf(released)
                 ELSE IF middle # {} THEN OldestOf(middle)
                 ELSE IF \E i \in all : IsTop(i) THEN IsTop(v)
                 ELSE IsLow(v)

\* three held voices; the one taken has been active longest although a
\* quieter voice sounds
C6_Witness ==
    \E k \in DOMAIN noteOnLog[Strings] :
        LET en == noteOnLog[Strings][k]
        IN /\ FoundPoolFull(en)
           /\ Len(en.pre) = 3
           /\ \A i \in VoiceIdx(en.pre) : en.pre[i].keyDown
           /\ en.note \notin SoundingNotes(en.pre)
           /\ \A j \in VoiceIdx(en.pre) \ {en.voice} :
                 en.pre[en.voice].noteOnTime < en.pre[j].noteOnTime
           /\ \E j \in VoiceIdx(en.pre) :
                 en.pre[en.voice].adsr.envelopeVal > en.pre[j].adsr.envelopeVal

\* ------------------------------------------------------------------------
\* C11: a tree made by serialise, deserialised into a freshly constructed
\* engine, leaves every field of all five parameter blocks equal to the
\* value the source engine had when the tree was made.
C11_RoundTrip ==
    [][(/\ isValid(tree)
        /\ sectionParams = ConstructedParams
        /\ deserialise(tree)) => sectionParams' = saved.tree]_vars

\* a fresh engine has taken a tree made from blocks that differ from the
\* constructor's in every field of Strings and in Choir
C11_Witness ==
    /\ saved.last.op = "deserialise"
    /\ saved.last.prior = ConstructedParams
    /\ saved.last.src = tree
    /\ sectionParams = saved.tree
    /\ \A f \in Fields : sectionParams[Strings][f] # ConstructedParams[Strings][f]
    /\ sectionParams[numSections - 1] # ConstructedParams[numSections - 1]
    /\ sectionParams[1] = ConstructedParams[1]

\* ------------------------------------------------------------------------
\* C12: deserialise sets each field present in a section's record to the
\* recorded value and leaves each absent field at its prior value; a section
\* whose record is absent keeps its whole block.
C12_PartialRestore ==
    [][\A src \in EditedTrees(tree) : deserialise(src) =>
         \A sec \in Sections :
            LET t == getChildWithName(src, sectionName(sec))
            IN IF ~isValid(t)
               THEN sectionParams'[sec] = sectionParams[sec]
               ELSE \A f \in Fields :
                       sectionParams'[sec][f] =
                          IF f \in DOMAIN t.props THEN saved.tree[sec][f]
                          ELSE sectionParams[sec][f]
      ]_vars

\* a record without "pan" was loaded over a block whose pan and gain both
\* differ from the recorded ones: pan stayed, gain was taken
C12_Witness ==
    /\ isValid(tree)
    /\ saved.last.op = "deserialise"
    /\ saved.last.src = withoutProperty(tree, "strings", "pan")
    /\ saved.tree[Strings].pan # saved.last.prior[Strings].pan
    /\ saved.tree[Strings].gain # saved.last.prior[Strings].gain
    /\ sectionParams[Strings].pan = saved.last.prior[Strings].pan
    /\ sectionParams[Strings].gain = saved.tree[Strings].gain

\* ------------------------------------------------------------------------
\* C13: the record serialise writes for a section carries the section's
\* active articulation index, the one voices are started with, as the most
\* recent keyswitch on the section's channel selected it.
\* Refuted by the code: the record carries sectionParams' articulationIndex,
\* which no keyswitch changes.
C13_RecordCarriesActiveIndex ==
    [][Serialise =>
         \A sec \in Sections :
            intOfVar(getChildWithName(tree', sectionName(sec)).props["articulationIndex"])
               = sectionRuntime[sec].currentArticulationIndex
      ]_vars

\* ------------------------------------------------------------------------
\* C14: loadPreset with a name that was never saved leaves every field of
\* all five parameter blocks unchanged.
C14_UnknownPresetNoOp ==
    [][\A name \in PresetNames :
          (saved.presets[name] = NoBlocks /\ loadPreset(name)) =>
             sectionParams' = sectionParams
      ]_vars

\* a name that was never saved was loaded while another name is stored and
\* the blocks are no longer the constructor's
C14_Witness ==
    /\ saved.last.op = "loadPreset"
    /\ saved.presets[saved.last.name] = NoBlocks
    /\ \E other \in PresetNames : saved.presets[other] # NoBlocks
    /\ sectionParams = saved.last.prior
    /\ sectionParams[Strings] # ConstructedParams[Strings]

\* ------------------------------------------------------------------------
\* C15: loadPreset (n) after savePreset (n) sets all five parameter blocks
\* to what they were at the most recent savePreset (n), whatever was written
\* to the blocks or saved under other names in between; savePreset changes
\* no parameter block.
C15_LoadRestoresLastSave ==
    [][\A name \in PresetNames :
          /\ (saved.presets[name] # NoBlocks /\ loadPreset(name)) =>
                sectionParams' = saved.presets[name]
          /\ savePreset(name) => sectionParams' = sectionParams
      ]_vars

\* "a" was loaded over blocks that had changed since it was saved, with
\* different blocks stored under "b"
C15_Witness ==
    /\ saved.last.op = "loadPreset"
    /\ saved.last.name = "a"
    /\ saved.presets["a"] # NoBlocks
    /\ saved.presets["b"] # NoBlocks
    /\ saved.presets["b"] # saved.presets["a"]
    /\ saved.last.prior # saved.presets["a"]
    /\ saved.last.prior # saved.presets["b"]
    /\ sectionParams = saved.presets["a"]
    /\ sectionParams # ConstructedParams

\* ------------------------------------------------------------------------
\* C16: serialise, deserialise, savePreset and loadPreset change no voice
\* runtime state: the voices (which are active, their notes, levels and
\* envelopes), each section's pending queue and each section's active
\* articulation index are the same after the call as before.
C16_StoreLeavesRuntime ==
    [][(Serialise \/ Deserialise \/ SavePreset \/ LoadPreset) =>
          sectionRuntime' = sectionRuntime]_vars

\* blocks were loaded over different ones while a Strings voice sounds at
\* the level of the old gain and a keyswitch has moved the active index
\* away from the loaded one
C16_Witness ==
    /\ saved.last.op \in {"deserialise", "loadPreset"}
    /\ saved.last.prior # sectionParams
    /\ sectionRuntime[Strings].currentArticulationIndex = 1
    /\ sectionParams[Strings].articulationIndex # 1
    /\ \E i \in ActiveVoices(sectionRuntime[Strings].voices) :
          /\ sectionRuntime[Strings].voices[i].level = saved.last.prior[Strings].gain
          /\ sectionRuntime[Strings].voices[i].level # sectionParams[Strings].gain

\* ------------------------------------------------------------------------
\* C17: processBlock called before any prepare leaves the output buffer all
\* zero, whatever the buffer held on entry and whatever MIDI events the
\* block carries.
NeverPrepared ==
    /\ \A sec \in Sections : sectionRuntime[sec].numSounds = 0
    /\ ~convolutionReverb.prepared
    /\ ~oversampler.prepared

C18_NoOpBeforePrepare ==
    [][\A n \in BlockSizes : (NeverPrepared /\ processBlock(n)) =>
          /\ sectionParams' = sectionParams
          /\ \A sec \in Sections :
                /\ sectionRuntime'[sec].currentArticulationIndex =
                       sectionRuntime[sec].currentArticulationIndex
                /\ sectionRuntime'[sec].voices = sectionRuntime[sec].voices]_vars

\* ------------------------------------------------------------------------
\* C19: immediately after reset every voice of every section is inactive,
\* the voices that were held and the voices that were in their release tail
\* included, and a following block with no MIDI events renders silence from
\* the sections.
AllVoicesInactive(rt) == \A sec \in Sections : ActiveVoices(rt[sec].voices) = {}

C19_ResetSilences ==
    /\ [][reset => AllVoicesInactive(sectionRuntime')]_vars
    /\ [][\A n \in BlockSizes :
             (resetFound # NoReset /\ midi = <<>> /\ processBlock(n)) =>
                 buffer' = Silence]_vars

\* reset found one voice held and one in its release tail, both of them
\* sounding, and left every voice inactive
C19_Witness ==
    /\ resetFound # NoReset
    /\ \E i, j \in VoiceIdx(resetFound[Strings]) :
          /\ isVoiceActive(resetFound[Strings][i])
          /\ resetFound[Strings][i].keyDown
          /\ resetFound[Strings][i].adsr.state # "release"
          /\ voiceOutput(resetFound[Strings][i], 4096) # Silence
          /\ isVoiceActive(resetFound[Strings][j])
          /\ resetFound[Strings][j].adsr.state = "release"
          /\ voiceOutput(resetFound[Strings][j], 4096) # Silence
    /\ AllVoicesInactive(sectionRuntime)

\* ------------------------------------------------------------------------
\* C20: when the control thread replaces a section's parameter block while
\* the audio thread starts a voice, the gain and the pan the voice uses come
\* from the same block, either the old one or the new one.
UsesBlock(v, note, p, rt) ==
    LET w == startNote(NewVoice, note, 1000, p, rt)
    IN /\ v.level = w.level
       /\ v.panLeft = w.panLeft
       /\ v.panRight = w.panRight

C20_NoTornRead ==
    [][\A n \in BlockSizes : \A index \in host.targets : \A params \in host.blocks :
          (params # sectionParams[index] /\ processBlockDuringSet(n, index, params)) =>
              \A k \in DOMAIN noteOnLog'[index] :
                  LET e == noteOnLog'[index][k]
                  IN e.voice > 0 =>
                        \/ UsesBlock(e.post[e.voice], e.note,
                                     sectionParams[index], sectionRuntime[index])
                        \/ UsesBlock(e.post[e.voice], e.note,
                                     params, sectionRuntime[index])]_vars

\* ------------------------------------------------------------------------
\* C21: setSectionParams does not change the level or the pan gains of the
\* voices that are already sounding; a block started afterwards gives the
\* new gain and pan to the voices its note-ons start and to no other voice.
SameMix(v, w) ==
    /\ v.level = w.level
    /\ v.panLeft = w.panLeft
    /\ v.panRight = w.panRight

StartedIn(log) == {log[k].voice : k \in DOMAIN log} \ {0}

C21_SoundingVoicesKeepMix ==
    /\ [][SetSectionParams =>
            \A sec \in Sections : \A i \in VoiceIdx(sectionRuntime[sec].voices) :
                SameMix(sectionRuntime'[sec].voices[i], sectionRuntime[sec].voices[i])]_vars
    /\ [][\A n \in BlockSizes : processBlock(n) =>
            \A sec \in Sections : \A i \in VoiceIdx(sectionRuntime[sec].voices) :
                IF i \in StartedIn(noteOnLog'[sec])
                THEN \E k \in DOMAIN noteOnLog'[sec] :
                        /\ noteOnLog'[sec][k].voice = i
                        /\ UsesBlock(sectionRuntime'[sec].voices[i], noteOnLog'[sec][k].note,
                                     sectionParams[sec], sectionRuntime[sec])
                ELSE SameMix(sectionRuntime'[sec].voices[i],
                             sectionRuntime[sec].voices[i])]_vars

\* after the block was replaced, a voice started before the change still
\* sounds with the old gain next to one started afterwards with the new
C21_Witness ==
    /\ saved.last = NoLoad
    /\ \E i, j \in ActiveVoices(sectionRuntime[Strings].voices) :
          /\ i \in StartedIn(noteOnLog[Strings])
          /\ j \notin StartedIn(noteOnLog[Strings])
          /\ sectionRuntime[Strings].voices[i].level = sectionParams[Strings].gain
          /\ sectionRuntime[Strings].voices[j].level = ConstructedParams[Strings].gain
          /\ sectionParams[Strings].gain # ConstructedParams[Strings].gain
          /\ voiceOutput(sectionRuntime[Strings].voices[j], 4096) # Silence

\* ------------------------------------------------------------------------
\* C22: prepare on a freshly constructed engine gives the five pools their
\* constructed capacities (the larger one for Strings, the smaller one for
\* each of the other four), and no operation but prepare changes the size
\* of an engine's pool, even when maxVoices is changed by setSectionParams
\* or by loading a preset.
PoolSize(rt, sec) == Len(rt[sec].voices)

RECURSIVE TotalVoices(_, _)
TotalVoices(rt, sec) ==
    IF sec >= numSections THEN 0 ELSE PoolSize(rt, sec) + TotalVoices(rt, sec + 1)

C22_PoolsFixedAtPrepare ==
    /\ [][(prepare /\ sectionParams = ConstructedParams) =>
            /\ \A sec \in Sections :
                  PoolSize(sectionRuntime', sec) =
                      IF sec = Strings THEN StringsVoices ELSE OtherVoices
            /\ TotalVoices(sectionRuntime', 0) =
                  StringsVoices + (numSections - 1) * OtherVoices]_vars
    /\ [][(prepare \/ Construct) \/
            \A sec \in Sections :
                PoolSize(sectionRuntime', sec) = PoolSize(sectionRuntime, sec)]_vars

\* the pools are those of a fresh prepare while Strings' maxVoices has been
\* changed by a preset load, after setSectionParams had changed it as well
C22_Witness ==
    /\ \A sec \in Sections :
          PoolSize(sectionRuntime, sec) =
              IF sec = Strings THEN StringsVoices ELSE OtherVoices
    /\ saved.last.op = "loadPreset"
    /\ saved.last.prior[Strings].maxVoices # sectionParams[Strings].maxVoices
    /\ saved.last.prior[Strings].maxVoices # StringsVoices
    /\ sectionParams[Strings].maxVoices # StringsVoices

\* ------------------------------------------------------------------------
\* C23: within one processBlock call each prepared post-processing stage
\* acts once, on the fully mixed bus: no step of a stage runs before all
\* five sections have rendered, and the convolution stage runs before the
\* oversampling stage.
OversamplerSteps == {"beginOversampledBlock", "endOversampledBlock"}

StepsOf(st, names) == {k \in DOMAIN st : st[k].stage \in names}

C23_StagesOnceAfterMix ==
    [][\A n \in BlockSizes : processBlock(n) =>
          /\ \A k \in DOMAIN stages' : stages'[k].rendered = numSections
          /\ Cardinality(StepsOf(stages', {"convolutionReverb"})) =
                IF convolutionReverb.prepared THEN 1 ELSE 0
          /\ Cardinality(StepsOf(stages', OversamplerSteps)) =
                IF oversampler.prepared /\ oversampler.enabled THEN 1 ELSE 0
          /\ \A j \in StepsOf(stages', {"convolutionReverb"}) :
                \A k \in StepsOf(stages', OversamplerSteps) : j < k]_vars

\* ------------------------------------------------------------------------
\* C24: the convolution stage and the oversampling stage each give the bus
\* back unchanged when called before their own prepare, and neither fails
\* on a bus of zero samples, prepared or not.
C24_StagesTolerant ==
    /\ [][\A b \in host.held : convolutionCall(b) =>
            /\ ~convolutionReverb.prepared => (buffer' = b /\ stages'[1].status = "ok")
            /\ b.numSamples = 0 => stages'[1].status = "ok"]_vars
    /\ [][\A b \in host.held : oversamplerCall(b) =>
            /\ ~oversampler.prepared =>
                  (buffer' = b /\ stages'[1].status = "ok" /\ oversampler' = oversampler)
            /\ b.numSamples = 0 => stages'[1].status = "ok"]_vars

\* the enabled oversampler, never prepared, was handed a bus that sounds
\* and gave it back as it was
C24_Witness ==
    /\ stages = <<stageCall("Oversampler::process", "ok")>>
    /\ ~oversampler.prepared
    /\ oversampler.enabled
    /\ heldIn.numSamples > 0
    /\ heldIn.left > 0
    /\ buffer = heldIn

\* ------------------------------------------------------------------------
\* C25: while no impulse response is loaded, also after loadImpulseResponse
\* was given a missing or an undecodable file, the convolution stage gives
\* the bus back unchanged and without an error.
C25_PassthroughWithoutImpulse ==
    [][\A b \in host.held : (convolutionCall(b) /\ ~convolutionReverb.decoded) =>
          (buffer' = b /\ stages'[1].status = "ok")]_vars

\* the prepared stage was called on a bus that sounds after a file no
\* reader decodes had been given, and the bus came back as it was
C25_Witness ==
    /\ convolutionReverb.prepared
    /\ ~convolutionReverb.decoded
    /\ stages # <<>>
    /\ stages[1].stage = "ConvolutionEngine::process"
    /\ stages[1].status = "ok"
    /\ stages[1].lastFile # <<>>
    /\ stages[1].lastFile[1].exists
    /\ ~stages[1].lastFile[1].decodes
    /\ heldIn.left > 0
    /\ buffer = heldIn

\* ------------------------------------------------------------------------
\* C26: what processBlock leaves in the buffer does not depend on what the
\* buffer held on entry: the bus handed to the post-processing stages is
\* the mix of the five sections alone, because the buffer is cleared before
\* any section adds into it.
SectionsMix(n) ==
    mixSections(processBlockResult(sectionRuntime, sectionParams, midi, n).out, 0)

C26_OutputIgnoresEntry ==
    [][\A n \in BlockSizes : processBlock(n) => buffer' = SectionsMix(n)]_vars

\* a block that sounds was rendered into a buffer that held something else
C26_Witness ==
    /\ heldIn = Leftover
    /\ buffer # Silence
    /\ buffer # heldIn
    /\ \E sec \in Sections : ActiveVoices(sectionRuntime[sec].voices) # {}

\* ------------------------------------------------------------------------
\* C27: a voice that has received a note-off with tail eventually becomes
\* inactive, its slot free again, as long as blocks keep being rendered;
\* until its envelope has finished the release stage it counts as active.
ReleasingSince(sec, i, t) ==
    /\ i \in VoiceIdx(sectionRuntime[sec].voices)
    /\ isPlayingButReleased(sectionRuntime[sec].voices[i])
    /\ sectionRuntime[sec].voices[i].adsr.state = "release"
    /\ sectionRuntime[sec].voices[i].noteOnTime = t

SlotFree(sec, i) ==
    \/ i \notin VoiceIdx(sectionRuntime[sec].voices)
    \/ ~isVoiceActive(sectionRuntime[sec].voices[i])

TakenSince(sec, i, t) ==
    /\ i \in VoiceIdx(sectionRuntime[sec].voices)
    /\ sectionRuntime[sec].voices[i].noteOnTime # t

ActiveUntilReleased ==
    \A sec \in Sections : \A i \in VoiceIdx(sectionRuntime[sec].voices) :
        AdsrIsActive(sectionRuntime[sec].voices[i].adsr) =>
            i \in ActiveVoices(sectionRuntime[sec].voices)

\* the claim as made: every released voice ends inactive
C27_ReleasedVoiceEnds ==
    /\ []ActiveUntilReleased
    /\ \A i \in 1 .. OtherVoices : \A t \in 1 .. MaxReleaseSent :
          ReleasingSince(Brass, i, t) ~> SlotFree(Brass, i)

\* as amended: it ends inactive unless a later note-on takes the voice for
\* a new note before its release has finished
C27_ReleasedVoiceEndsOrTaken ==
    /\ []ActiveUntilReleased
    /\ \A i \in 1 .. OtherVoices : \A t \in 1 .. MaxReleaseSent :
          ReleasingSince(Brass, i, t) ~> (SlotFree(Brass, i) \/ TakenSince(Brass, i, t))

\* a voice that was started and released has finished its release: it is
\* inactive with its envelope idle, and no other voice of the pool sounds
C27_Witness ==
    /\ \E i \in VoiceIdx(sectionRuntime[Brass].voices) :
          /\ ~isVoiceActive(sectionRuntime[Brass].voices[i])
          /\ sectionRuntime[Brass].voices[i].noteOnTime > 0
          /\ ~sectionRuntime[Brass].voices[i].keyDown
          /\ sectionRuntime[Brass].voices[i].adsr.state = "idle"
    /\ \E k \in DOMAIN lastIn : lastIn[k].kind = "off"
    /\ ActiveVoices(sectionRuntime[Brass].voices) = {}

\* ------------------------------------------------------------------------
\* C28: no step of processBlock allocates memory, takes a lock or performs
\* I/O.  Of the three, the allocations the voices make are in the state: a
\* call that allocates nothing leaves every voice's scratch buffer at the
\* size it had.
C28_RenderAllocatesNothing ==
    [][\A n \in BlockSizes : processBlock(n) =>
          \A sec \in Sections : \A i \in VoiceIdx(sectionRuntime[sec].voices) :
              sectionRuntime'[sec].voices[i].tempBuffer =
                  sectionRuntime[sec].voices[i].tempBuffer]_vars

\* ------------------------------------------------------------------------
\* C29: a note-on for a note that is not sounding, arriving while its
\* section has an inactive voice, starts that note on exactly one voice that
\* was inactive, and every voice that was active keeps its note, level and
\* envelope: nothing is stolen while a slot is free.
C29_FreeSlotTaken ==
    \A sec \in Sections : \A k \in DOMAIN noteOnLog[sec] :
        LET en == noteOnLog[sec][k]
        IN (/\ en.note \notin SoundingNotes(en.pre)
            /\ \E i \in VoiceIdx(en.pre) : ~isVoiceActive(en.pre[i])) =>
              /\ en.voice \in VoiceIdx(en.pre)
              /\ ~isVoiceActive(en.pre[en.voice])
              /\ en.post[en.voice].currentlyPlayingNote = en.note
              /\ en.post[en.voice].currentMidiNote = en.note
              /\ en.post[en.voice].adsr.state = "attack"
              /\ \A j \in VoiceIdx(en.pre) \ {en.voice} :
                    /\ isVoiceActive(en.post[j]) = isVoiceActive(en.pre[j])
                    /\ en.post[j].currentlyPlayingNote = en.pre[j].currentlyPlayingNote
                    /\ en.post[j].currentMidiNote = en.pre[j].currentMidiNote
                    /\ en.post[j].level = en.pre[j].level
                    /\ en.post[j].adsr = en.pre[j].adsr
              /\ NumActive(en.post) = NumActive(en.pre) + 1

\* a second note started next to a voice that is still sounding
C29_Witness ==
    \E k \in DOMAIN noteOnLog[Strings] :
        LET en == noteOnLog[Strings][k]
        IN /\ NumActive(en.pre) = 1
           /\ Len(en.pre) = 2
           /\ en.note \notin SoundingNotes(en.pre)
           /\ NumActive(en.post) = 2
           /\ en.note \in SoundingNotes(en.post)

\* ------------------------------------------------------------------------
\* C30: a keyswitch on channel c changes the runtime articulation index of
\* section c-1 and nothing else: after a block every section's stored
\* parameters are as before, a section whose channel carried no keyswitch
\* has the runtime index it had and the others that of their last
\* keyswitch, and a voice that was sounding and has not been started again
\* keeps its attack, decay, sustain and release.
C30_KeyswitchOnlySetsRuntimeIndex ==
    [][\A n \in BlockSizes : processBlock(n) =>
         /\ sectionParams' = sectionParams
         /\ \A sec \in Sections :
               LET ks == KeyswitchesOn(midi, sec + 1)
               IN /\ sectionRuntime'[sec].currentArticulationIndex =
                        (IF ks # <<>> THEN Last(ks).note - articulationKeyswitchBaseNote
                         ELSE sectionRuntime[sec].currentArticulationIndex)
                  /\ \A i \in VoiceIdx(sectionRuntime[sec].voices) :
                        (/\ isVoiceActive(sectionRuntime[sec].voices[i])
                         /\ sectionRuntime'[sec].voices[i].noteOnTime =
                               sectionRuntime[sec].voices[i].noteOnTime) =>
                           EnvelopeOf(sectionRuntime'[sec].voices[i]) =
                              EnvelopeOf(sectionRuntime[sec].voices[i])
      ]_vars

\* a keyswitch to the third articulation on channel 5 while a voice of that
\* section sounds with the first one's envelope
C30_Witness ==
    /\ lastIn # <<>>
    /\ \A k \in DOMAIN lastIn : lastIn[k].ch = numSections /\ IsKeyswitchNoteOn(lastIn[k])
    /\ sectionRuntime[numSections - 1].currentArticulationIndex = 2
    /\ \A sec \in 0 .. (numSections - 2) : sectionRuntime[sec].currentArticulationIndex = 0
    /\ \A sec \in Sections : sectionParams[sec].articulationIndex = 0
    /\ \E i \in VoiceIdx(sectionRuntime[numSections - 1].voices) :
          /\ isVoiceActive(sectionRuntime[numSections - 1].voices[i])
          /\ EnvelopeOf(sectionRuntime[numSections - 1].voices[i]) = EnvelopeOfPreset(0)

\* ------------------------------------------------------------------------
\* the keyswitches of channel c that a stream holds at or before a position
KeyswitchesUpTo(stream, c, pos) ==
    SelectSeq(stream, LAMBDA e : e.ch = c /\ IsKeyswitchNoteOn(e) /\ e.pos <= pos)

\* C31 (as stated): within a block a sounding note-on starts with the
\* articulation chosen by the latest keyswitch whose sample position is not
\* after its own, and with the one active before the block when there is
\* none, so a keyswitch later in the block does not reach it.
\* Refuted: the whole block's keyswitches are applied before any voice starts.
C31_TimestampOrder ==
    [][\A n \in BlockSizes : processBlock(n) =>
         \A sec \in Sections : \A k \in DOMAIN noteOnLog'[sec] :
            LET en   == noteOnLog'[sec][k]
                at   == midi[SoundingPlace(midi, sec + 1, k)].pos
                upTo == KeyswitchesUpTo(midi, sec + 1, at)
            IN EnvelopeOf(en.post[en.voice]) =
                  EnvelopeOfPreset(IF upTo # <<>>
                                   THEN Last(upTo).note - articulationKeyswitchBaseNote
                                   ELSE sectionRuntime[sec].currentArticulationIndex)
      ]_vars

\* C31 (amended): articulation changes take effect block by block: every
\* voice started in a block starts with the articulation that is active
\* when the block ends, so a note-on that precedes a keyswitch in the same
\* block starts with the articulation that keyswitch selects.
C31_BlockOrder ==
    [][\A n \in BlockSizes : processBlock(n) =>
         \A sec \in Sections : \A k \in DOMAIN noteOnLog'[sec] :
            LET en    == noteOnLog'[sec][k]
                at    == midi[SoundingPlace(midi, sec + 1, k)].pos
                later == SelectSeq(KeyswitchesOn(midi, sec + 1), LAMBDA e : e.pos > at)
            IN /\ EnvelopeOf(en.post[en.voice]) =
                     EnvelopeOfPreset(sectionRuntime'[sec].currentArticulationIndex)
               /\ later # <<>> =>
                     EnvelopeOf(en.post[en.voice]) =
                        EnvelopeOfPreset(Last(later).note - articulationKeyswitchBaseNote)
      ]_vars

\* a block with a note at its start and a keyswitch later on, after a block
\* that selected another articulation: the note has the later one's envelope
C31_Witness ==
    /\ sent = 3
    /\ Len(lastIn) = 2
    /\ lastIn[1] = [kind |-> "on", ch |-> 1, note |-> 60, pos |-> 0]
    /\ lastIn[2] = [kind |-> "on", ch |-> 1, note |-> 25, pos |-> 64]
    /\ Len(noteOnLog[Strings]) = 1
    /\ LET en == noteOnLog[Strings][1]
       IN EnvelopeOf(en.post[en.voice]) = EnvelopeOfPreset(1)

\* ------------------------------------------------------------------------
\* C32: once setSectionParams has stored articulationIndex k (0..2) for a
\* section, the next sounding note-on of that section starts its voice with
\* articulation preset k.  Stated for blocks without a keyswitch on a
\* section that no keyswitch has moved away from its initial articulation.
\* Refuted: no voice reads the stored index.
C32_StoredIndexSelects ==
    [][\A n \in BlockSizes : processBlock(n) =>
         \A sec \in Sections :
            (/\ sectionParams[sec].articulationIndex \in 0 .. (numArticulations - 1)
             /\ sectionParams[sec] # ConstructedParams[sec]
             /\ KeyswitchesOn(midi, sec + 1) = <<>>
             /\ sectionRuntime[sec].currentArticulationIndex = 0) =>
               \A k \in DOMAIN noteOnLog'[sec] :
                  LET en == noteOnLog'[sec][k]
                  IN EnvelopeOf(en.post[en.voice]) =
                        EnvelopeOfPreset(sectionParams[sec].articulationIndex)
      ]_vars

\* ------------------------------------------------------------------------
\* the articulation values a voice holds since it was last started
ArticulationOf(v) ==
    [attackMs |-> v.adsr.attack, decayMs |-> v.adsr.decay,
     sustain |-> v.adsr.sustain, releaseMs |-> v.adsr.release,
     filterCutoff |-> v.filterCutoff, filterResonance |-> v.filterResonance]
ArticulationTable ==
    {initialiseArticulations[idx] : idx \in 0 .. (numArticulations - 1)}
StoredIndexOutOfRange(sec) ==
    sectionParams[sec].articulationIndex \notin 0 .. (numArticulations - 1)

\* C33: every section's runtime articulation index lies in 0..2 and every
\* voice that has been started holds one of the three table entries,
\* whatever articulationIndex setSectionParams or a preset load has stored.
C33_ArticulationInRange ==
    \A sec \in Sections :
        /\ sectionRuntime[sec].currentArticulationIndex \in 0 .. (numArticulations - 1)
        /\ \A k \in DOMAIN noteOnLog[sec] :
              LET en == noteOnLog[sec][k]
              IN en.voice # 0 => ArticulationOf(en.post[en.voice]) \in ArticulationTable

\* a preset load has brought back an index beyond the table, the last
\* keyswitch of the range has been seen, and a note has started since
C33_Witness ==
    /\ StoredIndexOutOfRange(Strings)
    /\ saved.last # NoLoad
    /\ sectionRuntime[Strings].currentArticulationIndex = numArticulations - 1
    /\ \E k \in DOMAIN noteOnLog[Strings] :
          LET en == noteOnLog[Strings][k]
          IN en.voice # 0 /\ ArticulationOf(en.post[en.voice]) = initialiseArticulations[2]

\* ------------------------------------------------------------------------
\* C34: prepare rebuilds the pools and does not grow them: after every
\* prepare, the first or a later one, each section has as many voices as
\* its maxVoices at that moment, one sound, and no active voice.
C34_PrepareRebuilds ==
    [][prepare =>
         \A sec \in Sections :
            /\ PoolSize(sectionRuntime', sec) = sectionParams[sec].maxVoices
            /\ sectionRuntime'[sec].numSounds = 1
            /\ NumActive(sectionRuntime'[sec].voices) = 0]_vars

\* a prepare that followed a note started in a pool of another size: the
\* pool has the new capacity and nothing sounds
C34_Witness ==
    /\ \E k \in DOMAIN noteOnLog[Strings] :
          LET en == noteOnLog[Strings][k]
          IN /\ en.voice # 0
             /\ Len(en.pre) > 0
             /\ Len(en.pre) # PoolSize(sectionRuntime, Strings)
    /\ PoolSize(sectionRuntime, Strings) = sectionParams[Strings].maxVoices
    /\ sectionRuntime[Strings].numSounds = 1
    /\ NumActive(sectionRuntime[Strings].voices) = 0

\* ------------------------------------------------------------------------
\* C35: setStateInformation given bytes that decode to no valid tree, or to
\* a tree without a "sections" child, leaves all five parameter blocks as
\* they are; given the bytes getStateInformation produced, it gives every
\* parameter field the value it had when they were produced.
C35_StateRestore ==
    [][\A data \in UndecodableBlocks \cup NoSectionsBlocks \cup {destData} :
          setStateInformation(data) =>
             /\ data \in UndecodableBlocks \cup NoSectionsBlocks =>
                   sectionParams' = sectionParams
             /\ (data = destData /\ destData # emptyBlock) =>
                   \A sec \in Sections : \A f \in Fields :
                      sectionParams'[sec][f] = saved.tree[sec][f]]_vars

\* the saved state has been restored over blocks that differed from it in
\* Strings and in Choir
C35_Witness ==
    /\ destData # emptyBlock
    /\ saved.last.op = "setStateInformation"
    /\ saved.last.src = readFromStream(destData)
    /\ saved.last.prior[Strings] # saved.tree[Strings]
    /\ saved.last.prior[numSections - 1] # saved.tree[numSections - 1]
    /\ saved.tree[Strings] # ConstructedParams[Strings]
    /\ sectionParams = saved.tree

\* a block without a "sections" child has been handed over while the
\* parameter blocks differed from the constructor's
C35_WitnessIgnored ==
    /\ saved.last.op = "setStateInformation"
    /\ isValid(saved.last.src)
    /\ ~isValid(getChildWithName(saved.last.src, "sections"))
    /\ sectionParams = saved.last.prior
    /\ sectionParams[Strings] # ConstructedParams[Strings]

\* ------------------------------------------------------------------------
\* C36: a slider move in a section strip changes one field of its section's
\* parameter block and no other: when the strip writes its block back,
\* every field but the slider's has the value last written to it, also
\* when a state restore wrote it after the strip had taken its copy.
\* Refuted by the code: the write-back puts the copy's old values over the
\* restored ones.
C36_SliderChangesOneField ==
    [][SliderWrite =>
         /\ \A f \in Fields \ {strip.field} :
               sectionParams'[strip.section][f] = sectionParams[strip.section][f]
         /\ \A sec \in Sections \ {strip.section} :
               sectionParams'[sec] = sectionParams[sec]]_vars

\* ------------------------------------------------------------------------
\* C37: every note-on the typing keyboard has posted and no note-off has
\* answered belongs to a key that is still held by a live, focused keyboard,
\* once per note and channel of the key's state; no note-off answers a
\* note-on that was never posted.  So a release, an octave shift, the loss of
\* the focus and the destruction each leave no note-on unanswered, whatever
\* the layer count did meanwhile, and a key that is down posts none twice.
\* ------------------------------------------------------------------------
HeldBy(m, e) ==
    {keyCode \in DOMAIN m.activeKeyStates :
        /\ m.activeKeyStates[keyCode].isDown
        /\ m.activeKeyStates[keyCode].midiNote = e.note
        /\ e.ch \in m.activeKeyStates[keyCode].channels}

C37_NoteOnsMatched ==
    /\ mixer.stray = EmptyBag
    /\ \A e \in BagToSet(mixer.open) :
          /\ mixer.open[e] = 1
          /\ hasFocus(mixer)
          /\ HeldBy(mixer, e) \cap mixer.keysDown # {}
    /\ \A keyCode \in DOMAIN mixer.activeKeyStates :
          \A channel \in mixer.activeKeyStates[keyCode].channels :
              CopiesIn(noteOnMessage(channel, mixer.activeKeyStates[keyCode].midiNote),
                       mixer.open) = 1

\* ------------------------------------------------------------------------
\* C38: no note-on the typing keyboard posts is an articulation keyswitch,
\* at any octave offset the X and C keys reach.
\* ------------------------------------------------------------------------
C38_NoTypedKeyswitch ==
    \A e \in BagToSet(mixer.posted) : e.kind = "on" => ~isKeyswitch(e)

\* ------------------------------------------------------------------------
\* C39: two engines given the same sequence of prepare, setSectionParams,
\* preset and processBlock calls with the same MIDI blocks agree after every
\* call on which voices are active, the notes they play, their envelope
\* stages, the articulation index of every section and every parameter
\* block, whatever their callers' buffers held and whatever their voices
\* read of a parameter block that was being written.
\* ------------------------------------------------------------------------
Observed(e) ==
    [sec \in Sections |->
        [voices |-> [i \in VoiceIdx(e.sectionRuntime[sec].voices) |->
                        [active |-> isVoiceActive(e.sectionRuntime[sec].voices[i]),
                         note |-> e.sectionRuntime[sec].voices[i].currentlyPlayingNote,
                         stage |-> e.sectionRuntime[sec].voices[i].adsr.state]],
         articulation |-> e.sectionRuntime[sec].currentArticulationIndex,
         params |-> e.sectionParams[sec]]]

====
